---- MODULE Spec2Model ----
(***************************************************************************)
(* Model of the rendezvous core LocalRV (src/src/localrv.hh).              *)
(*                                                                         *)
(* The header declares the state (scopeIndex, pubIndex, pub_sub_Index) and *)
(* documents every handler; the bodies (localrv.cc) and the Scope,         *)
(* InformationItem and RemoteHost classes are not part of src/.  Handlers  *)
(* follow the header's contracts; where the header is silent the written   *)
(* specification (sections 3 and 4) is followed.                           *)
(***************************************************************************)
EXTENDS Integers, Sequences, FiniteSets, TLC

\* ---------------------------------------------------------------- bounds
NFrag == 2
MaxLen == 2
ChainLen == 3
MaxScopes == 3
MaxItems == 2
MaxIDs == 3
ForkIDs == 4

\* ------------------------------------------------------------- universes
Hosts == {"A", "B"}
Strategies == {"NODE_LOCAL", "DOMAIN_LOCAL"}
Frags == 1 .. NFrag
ScopeH == 1 .. MaxScopes
ItemH == 1 .. MaxItems


Prefix(id) == SubSeq(id, 1, Len(id) - 1)
Suffix(id) == <<id[Len(id)]>>

\* A function without the key k / with the key k mapped to v.
DropKey(f, k) == [x \in DOMAIN f \ {k} |-> f[x]]
PutKey(f, k, v) == [x \in DOMAIN f \cup {k} |-> IF x = k THEN v ELSE f[x]]

\* ------------------------------------------------------ entity records
EmptyFn == [x \in {} |-> {}]

NoPubSub == [pubs |-> {}, subs |-> {}]

NoScope == [alive |-> FALSE, ids |-> EmptyFn, strategy |-> "NODE_LOCAL",
            fatherScopes |-> {}, childrenScopes |-> {}, informationitems |-> {}]

NoItem == [alive |-> FALSE, ids |-> EmptyFn, strategy |-> "NODE_LOCAL",
           fatherScopes |-> {}]

NoHost == [known |-> FALSE, publishedScopes |-> {}, subscribedScopes |-> {},
           publishedItems |-> {}, subscribedItems |-> {}]

NewHost == [NoHost EXCEPT !.known = TRUE]

\* ------------------------------------------------------------- the state
\* scopes and items hold the Scope and InformationItem objects the indexes
\* point to; lastNote remembers what the publishers of an item were last told.
VARIABLES scopes, items, scopeIndex, pubIndex, pub_sub_Index, lastNote

vars == <<scopes, items, scopeIndex, pubIndex, pub_sub_Index, lastNote>>

\* The mutable state as one value, threaded through the handlers; out
\* collects the notifications a request emits, visited the scopes its
\* garbage collection looks at.
Graph == [scopes |-> scopes, items |-> items, scopeIndex |-> scopeIndex,
          pubIndex |-> pubIndex, hosts |-> pub_sub_Index,
          lastNote |-> lastNote, out |-> <<>>, visited |-> <<>>]

\* ------------------------------------------------------------- lookups
HasScope(g, id) == id \in DOMAIN g.scopeIndex
HasItem(g, id) == id \in DOMAIN g.pubIndex

AliveScopes(g) == {s \in ScopeH : g.scopes[s].alive}
AliveItems(g) == {p \in ItemH : g.items[p].alive}

IDsOf(e) == DOMAIN e.ids
PublishersOf(e) == UNION {e.ids[i].pubs : i \in DOMAIN e.ids}
SubscribersOf(e) == UNION {e.ids[i].subs : i \in DOMAIN e.ids}

FreeScopes(g) == ScopeH \ AliveScopes(g)
FreeItems(g) == ItemH \ AliveItems(g)
Lowest(S) == CHOOSE x \in S : \A y \in S : x <= y

\* A faulty closure: the subscribers of the father scopes are left out.
ItemSubscribersOnly(g, p) == SubscribersOf(g.items[p])

\* getSubscribers() of the item and of all its father scopes.
ClosedSubscribers(g, p) ==
    SubscribersOf(g.items[p])
        \cup UNION {SubscribersOf(g.scopes[f]) : f \in g.items[p].fatherScopes}

\* ------------------------------------------------------- host records
getRemoteHost(g, h) ==
    IF g.hosts[h].known THEN g ELSE [g EXCEPT !.hosts[h] = NewHost]

\* ------------------------------------------ publisher / subscriber links
\* A faulty link: the scope is not assigned to the publisher.
linkScopePublisherScopeOnly(g, h, s, id) ==
    [g EXCEPT !.scopes[s].ids[id].pubs = @ \cup {h}]

\* The publisher is stored in the scope's set of publishers (of the branch
\* id) and the scope is assigned to the publisher.
linkScopePublisher(g, h, s, id) ==
    [g EXCEPT !.scopes[s].ids[id].pubs = @ \cup {h},
              !.hosts[h].publishedScopes = @ \cup {id}]

linkScopeSubscriber(g, h, s, id) ==
    [g EXCEPT !.scopes[s].ids[id].subs = @ \cup {h},
              !.hosts[h].subscribedScopes = @ \cup {id}]

linkItemPublisher(g, h, p, id) ==
    [g EXCEPT !.items[p].ids[id].pubs = @ \cup {h},
              !.hosts[h].publishedItems = @ \cup {id}]

linkItemSubscriber(g, h, p, id) ==
    [g EXCEPT !.items[p].ids[id].subs = @ \cup {h},
              !.hosts[h].subscribedItems = @ \cup {id}]

\* A faulty unlink: the branch loses every publisher.
unlinkScopePublisherAll(g, h, s, id) ==
    [g EXCEPT !.scopes[s].ids[id].pubs = {},
              !.hosts[h].publishedScopes = @ \ {id}]

unlinkScopePublisher(g, h, s, id) ==
    [g EXCEPT !.scopes[s].ids[id].pubs = @ \ {h},
              !.hosts[h].publishedScopes = @ \ {id}]

unlinkScopeSubscriber(g, h, s, id) ==
    [g EXCEPT !.scopes[s].ids[id].subs = @ \ {h},
              !.hosts[h].subscribedScopes = @ \ {id}]

unlinkItemPublisher(g, h, p, id) ==
    [g EXCEPT !.items[p].ids[id].pubs = @ \ {h},
              !.hosts[h].publishedItems = @ \ {id}]

\* A faulty unlink: the item keeps the subscriber that gave it up.
unlinkItemSubscriberHostOnly(g, h, p, id) ==
    [g EXCEPT !.hosts[h].subscribedItems = @ \ {id}]

unlinkItemSubscriber(g, h, p, id) ==
    [g EXCEPT !.items[p].ids[id].subs = @ \ {h},
              !.hosts[h].subscribedItems = @ \ {id}]

\* ------------------------------------------------------ entity creation
\* new Scope(strategy, father) registered under fullID.
createScope(g, s, fullID, strategy, fathers) ==
    [g EXCEPT !.scopes[s] = [alive |-> TRUE,
                             ids |-> PutKey(EmptyFn, fullID, NoPubSub),
                             strategy |-> strategy,
                             fatherScopes |-> fathers,
                             childrenScopes |-> {},
                             informationitems |-> {}],
              !.scopeIndex = PutKey(@, fullID, s)]

addChildScope(g, f, s) ==
    [g EXCEPT !.scopes[f].childrenScopes = @ \cup {s}]

\* new InformationItem(strategy, father) registered under fullID.
createItem(g, p, fullID, strategy, f) ==
    [g EXCEPT !.items[p] = [alive |-> TRUE,
                            ids |-> PutKey(EmptyFn, fullID, NoPubSub),
                            strategy |-> strategy,
                            fatherScopes |-> {f}],
              !.pubIndex = PutKey(@, fullID, p),
              !.scopes[f].informationitems = @ \cup {p},
              !.lastNote[p] = "NONE"]

\* --------------------------------------------------------- notifications
Via(strategy) == IF strategy = "NODE_LOCAL" THEN "LOCAL" ELSE "TM"

Emit(g, n) == [g EXCEPT !.out = Append(@, n)]

\* SCOPE_PUBLISHED towards a set of subscribers; nobody to notify, nothing sent.
notifySubscribers(g, type, IDs, strategy, subscribers) ==
    IF subscribers = {} THEN g
    ELSE Emit(g, [type |-> type, via |-> Via(strategy), ids |-> IDs,
                  pubs |-> {}, subs |-> subscribers, strategy |-> strategy])

Matched(pubs, subs) == pubs # {} /\ subs # {}

\* START_PUBLISH / STOP_PUBLISH to the local proxy (FID NULL means STOP).
notifyLocalPublisher(g, p, pubs, subs) ==
    Emit(g, [type |-> IF Matched(pubs, subs) THEN "START_PUBLISH" ELSE "STOP_PUBLISH",
             via |-> "LOCAL", ids |-> IDsOf(g.items[p]),
             pubs |-> pubs, subs |-> subs, strategy |-> g.items[p].strategy])

\* MATCH_PUB_SUBS to the topology manager, which starts or stops the publishers.
requestTMAssistanceForRendezvous(g, p, pubs, subs) ==
    Emit(g, [type |-> "MATCH_PUB_SUBS",
             via |-> "TM", ids |-> IDsOf(g.items[p]),
             pubs |-> pubs, subs |-> subs, strategy |-> g.items[p].strategy])

\* What the publishers of p were last told: START when both sets are
\* non-empty, STOP otherwise (directly or through the topology manager).
NoteOf(pubs, subs) == IF Matched(pubs, subs) THEN "START" ELSE "STOP"

\* A faulty rendezvous: nothing is sent when the publishers were last told
\* the same.
rendezvousOnChange(g, p, subs) ==
    LET pubs == PublishersOf(g.items[p])
        g1 == IF g.items[p].strategy = "NODE_LOCAL"
              THEN notifyLocalPublisher(g, p, pubs, subs)
              ELSE requestTMAssistanceForRendezvous(g, p, pubs, subs)
    IN IF g.lastNote[p] = NoteOf(pubs, subs) THEN g
       ELSE [g1 EXCEPT !.lastNote[p] = NoteOf(pubs, subs)]

\* rendezvous: the publishers of p are told of the current sets, whatever
\* they were told before.
rendezvous(g, p, subs) ==
    LET pubs == PublishersOf(g.items[p])
        g1 == IF g.items[p].strategy = "NODE_LOCAL"
              THEN notifyLocalPublisher(g, p, pubs, subs)
              ELSE requestTMAssistanceForRendezvous(g, p, pubs, subs)
    IN [g1 EXCEPT !.lastNote[p] = NoteOf(pubs, subs)]

\* rendezvous for each item of a set, in handle order.
RECURSIVE rendezvousAll(_, _)
rendezvousAll(g, ps) ==
    IF ps = {} THEN g
    ELSE LET p == Lowest(ps)
         IN rendezvousAll(rendezvous(g, p, ClosedSubscribers(g, p)), ps \ {p})

\* ---------------------------------------------------- garbage collection
Collectable(sc) ==
    /\ sc.alive
    /\ PublishersOf(sc) = {} /\ SubscribersOf(sc) = {}
    /\ sc.childrenScopes = {} /\ sc.informationitems = {}

\* A faulty deletion: the identifiers of the scope stay in scopeIndex.
eraseScopeKeepKeys(g, s) ==
    [g EXCEPT !.scopes = [x \in ScopeH |->
                            IF x = s THEN NoScope
                            ELSE [@[x] EXCEPT !.childrenScopes = @ \ {s}]]]

\* The scope leaves the graph: every identifier is erased from scopeIndex
\* and every father forgets the child.
eraseScope(g, s) ==
    LET sc == g.scopes[s]
    IN [g EXCEPT !.scopeIndex = [i \in DOMAIN @ \ IDsOf(sc) |-> @[i]],
                 !.scopes = [x \in ScopeH |->
                               IF x = s THEN NoScope
                               ELSE [@[x] EXCEPT !.childrenScopes = @ \ {s}]]]

\* A faulty collection: after a deletion every handle is looked at.
RECURSIVE maybeGarbageCollectAllHandles(_, _)
maybeGarbageCollectAllHandles(g, todo) ==
    IF todo = {} THEN g
    ELSE LET s == Lowest(todo)
             g1 == [g EXCEPT !.visited = Append(@, s)]
         IN IF Collectable(g.scopes[s])
            THEN maybeGarbageCollectAllHandles(eraseScope(g1, s),
                     (todo \cup ScopeH) \ {s})
            ELSE maybeGarbageCollectAllHandles(g1, todo \ {s})

\* maybeGarbageCollect: delete the collectable scopes among todo, then look
\* at the fathers each deletion may have left collectable.
RECURSIVE maybeGarbageCollect(_, _)
maybeGarbageCollect(g, todo) ==
    IF todo = {} THEN g
    ELSE LET s == Lowest(todo)
             g1 == [g EXCEPT !.visited = Append(@, s)]
         IN IF Collectable(g.scopes[s])
            THEN maybeGarbageCollect(eraseScope(g1, s),
                     (todo \cup g.scopes[s].fatherScopes) \ {s})
            ELSE maybeGarbageCollect(g1, todo \ {s})

\* The item leaves the graph, and its fathers are garbage-collected.
deleteItem(g, p) ==
    LET it == g.items[p]
        g1 == [g EXCEPT !.pubIndex = [i \in DOMAIN @ \ IDsOf(it) |-> @[i]],
                        !.items[p] = NoItem,
                        !.lastNote[p] = "NONE",
                        !.scopes = [x \in ScopeH |->
                                      [@[x] EXCEPT !.informationitems = @ \ {p}]]]
    IN maybeGarbageCollect(g1, it.fatherScopes)

\* The fathers that some identifier of the entity goes through.
FathersVia(g, ids) ==
    {g.scopeIndex[Prefix(i)] : i \in {j \in ids : Prefix(j) \in DOMAIN g.scopeIndex}}

\* The entity survives the loss of the branch fullID when another father
\* than the branch's still references it.
OtherFathers(g, e, fullID) == e.fatherScopes \ FathersVia(g, {fullID})

\* The scope loses the identifier fullID, and the father of that branch
\* when no other identifier goes through it.
pruneScopeBranch(g, s, fullID) ==
    LET sc == g.scopes[s]
        gone == sc.fatherScopes \ FathersVia(g, IDsOf(sc) \ {fullID})
    IN [g EXCEPT !.scopeIndex = DropKey(@, fullID),
                 !.scopes = [x \in ScopeH |->
                     LET a == IF x = s
                              THEN [g.scopes[x] EXCEPT !.ids = DropKey(@, fullID),
                                                       !.fatherScopes = @ \ gone]
                              ELSE g.scopes[x]
                     IN IF x \in gone THEN [a EXCEPT !.childrenScopes = @ \ {s}]
                        ELSE a]]

\* A faulty deletion: the scope is deleted under all its identifiers.
deleteScopeWhole(g, s, fullID) == maybeGarbageCollect(g, {s})

\* A root scope is deleted with all references to it.  Of an inner scope
\* with other fathers only the branch fullID is removed; otherwise the
\* scope is deleted.  Fathers left empty are collected.
deleteScopeBranch(g, s, fullID) ==
    IF Len(fullID) = 1 \/ OtherFathers(g, g.scopes[s], fullID) = {}
    THEN maybeGarbageCollect(g, {s})
    ELSE maybeGarbageCollect(pruneScopeBranch(g, s, fullID),
                             g.scopes[s].fatherScopes \ {s})

pruneItemBranch(g, p, fullID) ==
    LET it == g.items[p]
        gone == it.fatherScopes \ FathersVia(g, IDsOf(it) \ {fullID})
    IN [g EXCEPT !.pubIndex = DropKey(@, fullID),
                 !.items[p].ids = DropKey(@, fullID),
                 !.items[p].fatherScopes = @ \ gone,
                 !.scopes = [x \in ScopeH |->
                     IF x \in gone
                     THEN [g.scopes[x] EXCEPT !.informationitems = @ \ {p}]
                     ELSE g.scopes[x]]]

\* Only the branch fullID of an item published under other scopes is
\* removed; otherwise the item is deleted.
deleteItemBranch(g, p, fullID) ==
    IF OtherFathers(g, g.items[p], fullID) = {}
    THEN deleteItem(g, p)
    ELSE maybeGarbageCollect(pruneItemBranch(g, p, fullID), g.items[p].fatherScopes)

\* ------------------------------------------------------- handler results
R(g, ret) == [g |-> g, ret |-> ret]

\* ---------------------------------------------------------- publish_scope
\* A faulty root publication: the publisher is stored before the strategy
\* of the existing scope is compared.
publish_root_scope_LinkFirst(g, h, ID, strategy) ==
    IF HasScope(g, ID)
    THEN LET s == g.scopeIndex[ID]
         IN R(linkScopePublisher(g, h, s, ID),
              IF g.scopes[s].strategy = strategy THEN "SUCCESS" ELSE "STRATEGY_MISMATCH")
    ELSE IF FreeScopes(g) = {} THEN R(g, "OUT_OF_HANDLES")
    ELSE LET s == Lowest(FreeScopes(g))
         IN R(linkScopePublisher(createScope(g, s, ID, strategy, {}), h, s, ID),
              "SUCCESS")

publish_root_scope(g, h, ID, strategy) ==
    IF HasScope(g, ID)
    THEN LET s == g.scopeIndex[ID]
         IN IF g.scopes[s].strategy = strategy
            THEN R(linkScopePublisher(g, h, s, ID), "SUCCESS")
            ELSE R(g, "STRATEGY_MISMATCH")
    ELSE IF FreeScopes(g) = {} THEN R(g, "OUT_OF_HANDLES")
    ELSE LET s == Lowest(FreeScopes(g))
         IN R(linkScopePublisher(createScope(g, s, ID, strategy, {}), h, s, ID),
              "SUCCESS")

\* A faulty inner publication: an item that holds the identifier is not
\* looked for.
publish_inner_scope_NoItemCheck(g, h, ID, prefixID, strategy) ==
    LET fullID == prefixID \o ID
    IN IF ~HasScope(g, prefixID) THEN R(g, "PARENT_DOES_NOT_EXIST")
       ELSE LET f == g.scopeIndex[prefixID]
            IN IF HasScope(g, fullID)
               THEN LET s == g.scopeIndex[fullID]
                    IN IF g.scopes[s].strategy = strategy
                       THEN R(linkScopePublisher(g, h, s, fullID), "SUCCESS")
                       ELSE R(g, "STRATEGY_MISMATCH")
               ELSE IF g.scopes[f].strategy # strategy
                    THEN R(g, "STRATEGY_MISMATCH")
               ELSE IF FreeScopes(g) = {} THEN R(g, "OUT_OF_HANDLES")
               ELSE LET s == Lowest(FreeScopes(g))
                        g1 == addChildScope(createScope(g, s, fullID, strategy, {f}), f, s)
                        g2 == linkScopePublisher(g1, h, s, fullID)
                    IN R(notifySubscribers(g2, "SCOPE_PUBLISHED", {fullID}, strategy,
                                           SubscribersOf(g2.scopes[f])),
                         "SUCCESS")

\* A faulty inner publication: the subscribers of the father are told of
\* the scope also when it exists and only gains a publisher.
publish_inner_scope_TellsAgain(g, h, ID, prefixID, strategy) ==
    LET fullID == prefixID \o ID
    IN IF HasItem(g, fullID) THEN R(g, "INFO_ITEM_EXISTS")
       ELSE IF ~HasScope(g, prefixID) THEN R(g, "PARENT_DOES_NOT_EXIST")
       ELSE LET f == g.scopeIndex[prefixID]
            IN IF HasScope(g, fullID)
               THEN LET s == g.scopeIndex[fullID]
                    IN IF g.scopes[s].strategy = strategy
                       THEN R(notifySubscribers(linkScopePublisher(g, h, s, fullID),
                                                "SCOPE_PUBLISHED", {fullID}, strategy,
                                                SubscribersOf(g.scopes[f])),
                              "SUCCESS")
                       ELSE R(g, "STRATEGY_MISMATCH")
               ELSE IF g.scopes[f].strategy # strategy
                    THEN R(g, "STRATEGY_MISMATCH")
               ELSE IF FreeScopes(g) = {} THEN R(g, "OUT_OF_HANDLES")
               ELSE LET s == Lowest(FreeScopes(g))
                        g1 == addChildScope(createScope(g, s, fullID, strategy, {f}), f, s)
                        g2 == linkScopePublisher(g1, h, s, fullID)
                    IN R(notifySubscribers(g2, "SCOPE_PUBLISHED", {fullID}, strategy,
                                           SubscribersOf(g2.scopes[f])),
                         "SUCCESS")

publish_inner_scope(g, h, ID, prefixID, strategy) ==
    LET fullID == prefixID \o ID
    IN IF HasItem(g, fullID) THEN R(g, "INFO_ITEM_EXISTS")
       ELSE IF ~HasScope(g, prefixID) THEN R(g, "PARENT_DOES_NOT_EXIST")
       ELSE LET f == g.scopeIndex[prefixID]
            IN IF HasScope(g, fullID)
               THEN LET s == g.scopeIndex[fullID]
                    IN IF g.scopes[s].strategy = strategy
                       THEN R(linkScopePublisher(g, h, s, fullID), "SUCCESS")
                       ELSE R(g, "STRATEGY_MISMATCH")
               ELSE IF g.scopes[f].strategy # strategy
                    THEN R(g, "STRATEGY_MISMATCH")
               ELSE IF FreeScopes(g) = {} THEN R(g, "OUT_OF_HANDLES")
               ELSE LET s == Lowest(FreeScopes(g))
                        g1 == addChildScope(createScope(g, s, fullID, strategy, {f}), f, s)
                        g2 == linkScopePublisher(g1, h, s, fullID)
                    IN R(notifySubscribers(g2, "SCOPE_PUBLISHED", {fullID}, strategy,
                                           SubscribersOf(g2.scopes[f])),
                         "SUCCESS")

\* A faulty republication: the scope gains the identifier but not the father.
addScopeBranchNoFather(g, s, f, fullID) ==
    [g EXCEPT !.scopeIndex = PutKey(@, fullID, s),
              !.scopes[s].ids = PutKey(@, fullID, NoPubSub)]

\* The source scope gains the identifier fullID and the father f.
addScopeBranch(g, s, f, fullID) ==
    [g EXCEPT !.scopeIndex = PutKey(@, fullID, s),
              !.scopes = [x \in ScopeH |->
                  LET a == IF x = s
                           THEN [g.scopes[x] EXCEPT
                                    !.ids = PutKey(@, fullID, NoPubSub),
                                    !.fatherScopes = @ \cup {f}]
                           ELSE g.scopes[x]
                  IN IF x = f THEN [a EXCEPT !.childrenScopes = @ \cup {s}] ELSE a]]

\* A faulty choice of recipients: every subscriber of the new father.
RepublishRecipientsAll(g, s, f) == SubscribersOf(g.scopes[f])

\* Subscribers of the new father that no earlier father of the scope has.
RepublishRecipients(g, s, f) ==
    SubscribersOf(g.scopes[f])
        \ UNION {SubscribersOf(g.scopes[o]) : o \in g.scopes[s].fatherScopes}

\* A faulty republication: a scope republished before is announced to the
\* subscribers of the father again.
republish_inner_scope_TellsAgain(g, h, ID, prefixID, strategy) ==
    LET suffixID == Suffix(ID)
        existingID == Prefix(ID)
        fullID == prefixID \o suffixID
    IN IF HasItem(g, fullID) THEN R(g, "INFO_ITEM_EXISTS")
       ELSE IF ~HasScope(g, prefixID) THEN R(g, "PARENT_DOES_NOT_EXIST")
       ELSE IF ~HasScope(g, existingID) THEN R(g, "SCOPE_DOES_NOT_EXIST")
       ELSE LET f == g.scopeIndex[prefixID]
                s == g.scopeIndex[existingID]
            IN IF HasScope(g, fullID) /\ g.scopeIndex[fullID] # s
               THEN R(g, "SCOPE_EXISTS")
               ELSE IF g.scopes[IF HasScope(g, fullID) THEN s ELSE f].strategy # strategy
                    THEN R(g, "STRATEGY_MISMATCH")
               ELSE LET to == IF HasScope(g, fullID) THEN SubscribersOf(g.scopes[f])
                              ELSE RepublishRecipients(g, s, f)
                        g1 == IF HasScope(g, fullID) THEN g
                              ELSE addScopeBranch(g, s, f, fullID)
                        g2 == linkScopePublisher(g1, h, s, fullID)
                    IN R(notifySubscribers(g2, "SCOPE_PUBLISHED", IDsOf(g2.scopes[s]),
                                           strategy, to),
                         "SUCCESS")

republish_inner_scope(g, h, ID, prefixID, strategy) ==
    LET suffixID == Suffix(ID)
        existingID == Prefix(ID)
        fullID == prefixID \o suffixID
    IN IF HasItem(g, fullID) THEN R(g, "INFO_ITEM_EXISTS")
       ELSE IF ~HasScope(g, prefixID) THEN R(g, "PARENT_DOES_NOT_EXIST")
       ELSE IF ~HasScope(g, existingID) THEN R(g, "SCOPE_DOES_NOT_EXIST")
       ELSE LET f == g.scopeIndex[prefixID]
                s == g.scopeIndex[existingID]
            IN IF HasScope(g, fullID)
               THEN IF g.scopeIndex[fullID] # s THEN R(g, "SCOPE_EXISTS")
                    ELSE IF g.scopes[s].strategy = strategy
                         THEN R(linkScopePublisher(g, h, s, fullID), "SUCCESS")
                         ELSE R(g, "STRATEGY_MISMATCH")
               ELSE IF g.scopes[f].strategy # strategy
                    THEN R(g, "STRATEGY_MISMATCH")
               ELSE LET to == RepublishRecipients(g, s, f)
                        g1 == addScopeBranch(g, s, f, fullID)
                        g2 == linkScopePublisher(g1, h, s, fullID)
                    IN R(notifySubscribers(g2, "SCOPE_PUBLISHED", IDsOf(g2.scopes[s]),
                                           strategy, to),
                         "SUCCESS")

\* A faulty dispatch: an identifier of several fragments is taken for a
\* root scope.
publish_scope_AnyRoot(g, h, ID, prefixID, strategy) ==
    IF Len(prefixID) = 0
    THEN publish_root_scope(g, h, ID, strategy)
    ELSE IF Len(ID) = 1
    THEN publish_inner_scope(g, h, ID, prefixID, strategy)
    ELSE republish_inner_scope(g, h, ID, prefixID, strategy)

publish_scope(g, h, ID, prefixID, strategy) ==
    IF Len(prefixID) = 0 /\ Len(ID) = 1
    THEN publish_root_scope(g, h, ID, strategy)
    ELSE IF Len(prefixID) > 0 /\ Len(ID) = 1
    THEN publish_inner_scope(g, h, ID, prefixID, strategy)
    ELSE IF Len(prefixID) > 0 /\ Len(ID) > 1
    THEN republish_inner_scope(g, h, ID, prefixID, strategy)
    ELSE R(g, "WRONG_IDS")

\* ----------------------------------------------------------- publish_info
\* A faulty advertisement: an item is created although the father scope
\* does not exist.
advertise_info_NoParentCheck(g, h, ID, prefixID, strategy) ==
    LET fullID == prefixID \o ID
    IN IF HasScope(g, fullID) THEN R(g, "SCOPE_EXISTS")
       ELSE IF HasItem(g, fullID)
       THEN LET p == g.pubIndex[fullID]
            IN IF g.items[p].strategy = strategy
               THEN LET g1 == linkItemPublisher(g, h, p, fullID)
                    IN R(rendezvous(g1, p, ClosedSubscribers(g1, p)), "SUCCESS")
               ELSE R(g, "STRATEGY_MISMATCH")
       ELSE IF HasScope(g, prefixID) /\ g.scopes[g.scopeIndex[prefixID]].strategy # strategy
       THEN R(g, "STRATEGY_MISMATCH")
       ELSE IF FreeItems(g) = {} THEN R(g, "OUT_OF_HANDLES")
       ELSE LET p == Lowest(FreeItems(g))
                g0 == IF HasScope(g, prefixID)
                      THEN createItem(g, p, fullID, strategy, g.scopeIndex[prefixID])
                      ELSE [g EXCEPT !.items[p] = [alive |-> TRUE,
                                                   ids |-> PutKey(EmptyFn, fullID, NoPubSub),
                                                   strategy |-> strategy,
                                                   fatherScopes |-> {}],
                                     !.pubIndex = PutKey(@, fullID, p)]
                g1 == linkItemPublisher(g0, h, p, fullID)
            IN R(rendezvous(g1, p, ClosedSubscribers(g1, p)), "SUCCESS")
advertise_info(g, h, ID, prefixID, strategy) ==
    LET fullID == prefixID \o ID
    IN IF HasScope(g, fullID) THEN R(g, "SCOPE_EXISTS")
       ELSE IF ~HasScope(g, prefixID) THEN R(g, "PARENT_DOES_NOT_EXIST")
       ELSE LET f == g.scopeIndex[prefixID]
            IN IF HasItem(g, fullID)
               THEN LET p == g.pubIndex[fullID]
                    IN IF g.items[p].strategy = strategy
                       THEN LET g1 == linkItemPublisher(g, h, p, fullID)
                            IN R(rendezvous(g1, p, ClosedSubscribers(g1, p)), "SUCCESS")
                       ELSE R(g, "STRATEGY_MISMATCH")
               ELSE IF g.scopes[f].strategy # strategy
                    THEN R(g, "STRATEGY_MISMATCH")
               ELSE IF FreeItems(g) = {} THEN R(g, "OUT_OF_HANDLES")
               ELSE LET p == Lowest(FreeItems(g))
                        g1 == linkItemPublisher(createItem(g, p, fullID, strategy, f),
                                                h, p, fullID)
                    IN R(rendezvous(g1, p, ClosedSubscribers(g1, p)), "SUCCESS")

\* The source item gains the identifier fullID and the father f.
addItemBranch(g, p, f, fullID) ==
    [g EXCEPT !.pubIndex = PutKey(@, fullID, p),
              !.items[p].ids = PutKey(@, fullID, NoPubSub),
              !.items[p].fatherScopes = @ \cup {f},
              !.scopes[f].informationitems = @ \cup {p}]

readvertise_info(g, h, ID, prefixID, strategy) ==
    LET suffixID == Suffix(ID)
        existingID == Prefix(ID)
        fullID == prefixID \o suffixID
    IN IF HasScope(g, fullID) THEN R(g, "SCOPE_EXISTS")
       ELSE IF ~HasScope(g, prefixID) THEN R(g, "PARENT_DOES_NOT_EXIST")
       ELSE IF ~HasItem(g, existingID) THEN R(g, "INFO_ITEM_DOES_NOT_EXIST")
       ELSE LET f == g.scopeIndex[prefixID]
                p == g.pubIndex[existingID]
            IN IF HasItem(g, fullID)
               THEN IF g.pubIndex[fullID] # p THEN R(g, "INFO_ITEM_EXISTS")
                    ELSE IF g.items[p].strategy = strategy
                         THEN LET g1 == linkItemPublisher(g, h, p, fullID)
                              IN R(rendezvous(g1, p, ClosedSubscribers(g1, p)), "SUCCESS")
                         ELSE R(g, "STRATEGY_MISMATCH")
               ELSE IF g.scopes[f].strategy # strategy
                    THEN R(g, "STRATEGY_MISMATCH")
               ELSE LET g1 == linkItemPublisher(addItemBranch(g, p, f, fullID),
                                                h, p, fullID)
                    IN R(rendezvous(g1, p, ClosedSubscribers(g1, p)), "SUCCESS")

publish_info(g, h, ID, prefixID, strategy) ==
    IF Len(prefixID) > 0 /\ Len(ID) = 1
    THEN advertise_info(g, h, ID, prefixID, strategy)
    ELSE IF Len(prefixID) > 0 /\ Len(ID) > 1
    THEN readvertise_info(g, h, ID, prefixID, strategy)
    ELSE R(g, "WRONG_IDS")

\* --------------------------------------------------------- unpublish_info
unpublish_info(g, h, ID, prefixID, strategy) ==
    LET fullID == prefixID \o ID
    IN IF Len(prefixID) = 0 \/ Len(ID) # 1 THEN R(g, "WRONG_IDS")
       ELSE IF ~HasItem(g, fullID) THEN R(g, "INFO_ITEM_DOES_NOT_EXIST")
       ELSE LET p == g.pubIndex[fullID]
            IN IF g.items[p].strategy # strategy THEN R(g, "STRATEGY_MISMATCH")
               ELSE LET g1 == unlinkItemPublisher(g, h, p, fullID)
                        g2 == rendezvous(g1, p, ClosedSubscribers(g1, p))
                    IN IF PublishersOf(g2.items[p]) = {} /\ SubscribersOf(g2.items[p]) = {}
                       THEN R(deleteItemBranch(g2, p, fullID), "SUCCESS")
                       ELSE R(g2, "SUCCESS")

\* -------------------------------------------------------- unpublish_scope
\* The identifiers, under the scope's identifier fullID, of the items
\* residing under the scope.
ItemIDsUnder(g, s, fullID) ==
    {i \in DOMAIN g.pubIndex :
        Prefix(i) = fullID /\ g.pubIndex[i] \in g.scopes[s].informationitems}

\* The least sequence of a set of equally long sequences of fragments.
RECURSIVE Before(_, _)
Before(a, b) ==
    IF a = <<>> THEN TRUE
    ELSE IF a[1] # b[1] THEN a[1] < b[1]
    ELSE Before(Tail(a), Tail(b))

First(S) == CHOOSE a \in S : \A b \in S : Before(a, b)

\* unpublish_info for the same host on each of the identifiers.
RECURSIVE unpublishItems(_, _, _, _, _)
unpublishItems(g, h, todo, fullID, strategy) ==
    IF todo = {} THEN g
    ELSE LET i == First(todo)
         IN unpublishItems(unpublish_info(g, h, Suffix(i), fullID, strategy).g,
                           h, todo \ {i}, fullID, strategy)

unpublish_scope(g, h, ID, prefixID, strategy) ==
    LET fullID == prefixID \o ID
    IN IF Len(ID) # 1 THEN R(g, "WRONG_IDS")
       ELSE IF ~HasScope(g, fullID) THEN R(g, "SCOPE_DOES_NOT_EXIST")
       ELSE LET s == g.scopeIndex[fullID]
            IN IF g.scopes[s].strategy # strategy THEN R(g, "STRATEGY_MISMATCH")
               ELSE LET g1 == unpublishItems(g, h, ItemIDsUnder(g, s, fullID),
                                             fullID, strategy)
                    IN IF ~HasScope(g1, fullID) THEN R(g1, "SUCCESS")
                       ELSE LET g2 == unlinkScopePublisher(g1, h, s, fullID)
                            IN IF Collectable(g2.scopes[s])
                               THEN R(deleteScopeBranch(g2, s, fullID), "SUCCESS")
                               ELSE R(g2, "SUCCESS")

\* -------------------------------------------------------- subscribe_scope
\* SCOPE_PUBLISHED to the new subscriber for every direct subscope.
RECURSIVE notifyAboutSubscopes(_, _, _)
notifyAboutSubscopes(g, h, cs) ==
    IF cs = {} THEN g
    ELSE LET c == Lowest(cs)
         IN notifyAboutSubscopes(
                notifySubscribers(g, "SCOPE_PUBLISHED", IDsOf(g.scopes[c]),
                                  g.scopes[c].strategy, {h}),
                h, cs \ {c})

\* A faulty subscription: no rendezvous for the items under the scope.
subscribeExistingNoRendezvous(g, h, s, fullID) ==
    LET g1 == linkScopeSubscriber(g, h, s, fullID)
    IN notifyAboutSubscopes(g1, h, g1.scopes[s].childrenScopes)

\* A faulty subscription: the subscriber is linked after the rendezvous.
subscribeExistingLinkLast(g, h, s, fullID) ==
    LET g1 == notifyAboutSubscopes(g, h, g.scopes[s].childrenScopes)
        g2 == rendezvousAll(g1, g1.scopes[s].informationitems)
    IN linkScopeSubscriber(g2, h, s, fullID)

\* The subscription to an existing scope: link, subscopes, rendezvous.
subscribeExisting(g, h, s, fullID) ==
    LET g1 == linkScopeSubscriber(g, h, s, fullID)
        g2 == notifyAboutSubscopes(g1, h, g1.scopes[s].childrenScopes)
    IN rendezvousAll(g2, g2.scopes[s].informationitems)

subscribe_root_scope(g, h, ID, strategy) ==
    IF HasScope(g, ID)
    THEN LET s == g.scopeIndex[ID]
         IN IF g.scopes[s].strategy = strategy
            THEN R(subscribeExisting(g, h, s, ID), "SUCCESS")
            ELSE R(g, "STRATEGY_MISMATCH")
    ELSE IF FreeScopes(g) = {} THEN R(g, "OUT_OF_HANDLES")
    ELSE LET s == Lowest(FreeScopes(g))
         IN R(linkScopeSubscriber(createScope(g, s, ID, strategy, {}), h, s, ID),
              "SUCCESS")

subscribe_inner_scope(g, h, ID, prefixID, strategy) ==
    LET fullID == prefixID \o ID
    IN IF HasItem(g, fullID) THEN R(g, "INFO_ITEM_EXISTS")
       ELSE IF ~HasScope(g, prefixID) THEN R(g, "PARENT_DOES_NOT_EXIST")
       ELSE LET f == g.scopeIndex[prefixID]
            IN IF HasScope(g, fullID)
               THEN LET s == g.scopeIndex[fullID]
                    IN IF g.scopes[s].strategy = strategy
                       THEN R(subscribeExisting(g, h, s, fullID), "SUCCESS")
                       ELSE R(g, "STRATEGY_MISMATCH")
               ELSE IF g.scopes[f].strategy # strategy
                    THEN R(g, "STRATEGY_MISMATCH")
               ELSE IF FreeScopes(g) = {} THEN R(g, "OUT_OF_HANDLES")
               ELSE LET s == Lowest(FreeScopes(g))
                        g1 == addChildScope(createScope(g, s, fullID, strategy, {f}), f, s)
                        g2 == notifySubscribers(g1, "SCOPE_PUBLISHED", {fullID}, strategy,
                                                SubscribersOf(g1.scopes[f]))
                    IN R(linkScopeSubscriber(g2, h, s, fullID), "SUCCESS")

subscribe_scope(g, h, ID, prefixID, strategy) ==
    IF Len(prefixID) = 0 /\ Len(ID) = 1
    THEN subscribe_root_scope(g, h, ID, strategy)
    ELSE IF Len(prefixID) > 0 /\ Len(ID) = 1
    THEN subscribe_inner_scope(g, h, ID, prefixID, strategy)
    ELSE R(g, "WRONG_IDS")

\* --------------------------------------------------------- subscribe_info
\* A faulty subscription: the identifier is not looked up among the scopes.
subscribe_info_NoScopeCheck(g, h, ID, prefixID, strategy) ==
    LET fullID == prefixID \o ID
    IN IF Len(prefixID) = 0 \/ Len(ID) # 1 THEN R(g, "WRONG_IDS")
       ELSE IF ~HasScope(g, prefixID) THEN R(g, "PARENT_DOES_NOT_EXIST")
       ELSE LET f == g.scopeIndex[prefixID]
            IN IF HasItem(g, fullID)
               THEN LET p == g.pubIndex[fullID]
                    IN IF g.items[p].strategy = strategy
                       THEN LET g1 == linkItemSubscriber(g, h, p, fullID)
                            IN R(rendezvous(g1, p, ClosedSubscribers(g1, p)), "SUCCESS")
                       ELSE R(g, "STRATEGY_MISMATCH")
               ELSE IF g.scopes[f].strategy # strategy
                    THEN R(g, "STRATEGY_MISMATCH")
               ELSE IF FreeItems(g) = {} THEN R(g, "OUT_OF_HANDLES")
               ELSE LET p == Lowest(FreeItems(g))
                    IN R(linkItemSubscriber(createItem(g, p, fullID, strategy, f),
                                            h, p, fullID),
                         "SUCCESS")

subscribe_info(g, h, ID, prefixID, strategy) ==
    LET fullID == prefixID \o ID
    IN IF Len(prefixID) = 0 \/ Len(ID) # 1 THEN R(g, "WRONG_IDS")
       ELSE IF HasScope(g, fullID) THEN R(g, "SCOPE_EXISTS")
       ELSE IF ~HasScope(g, prefixID) THEN R(g, "PARENT_DOES_NOT_EXIST")
       ELSE LET f == g.scopeIndex[prefixID]
            IN IF HasItem(g, fullID)
               THEN LET p == g.pubIndex[fullID]
                    IN IF g.items[p].strategy = strategy
                       THEN LET g1 == linkItemSubscriber(g, h, p, fullID)
                            IN R(rendezvous(g1, p, ClosedSubscribers(g1, p)), "SUCCESS")
                       ELSE R(g, "STRATEGY_MISMATCH")
               ELSE IF g.scopes[f].strategy # strategy
                    THEN R(g, "STRATEGY_MISMATCH")
               ELSE IF FreeItems(g) = {} THEN R(g, "OUT_OF_HANDLES")
               ELSE LET p == Lowest(FreeItems(g))
                    IN R(linkItemSubscriber(createItem(g, p, fullID, strategy, f),
                                            h, p, fullID),
                         "SUCCESS")

\* ------------------------------------------------------ unsubscribe_scope
unsubscribe_scope(g, h, ID, prefixID, strategy) ==
    LET fullID == prefixID \o ID
    IN IF Len(ID) # 1 THEN R(g, "WRONG_IDS")
       ELSE IF ~HasScope(g, fullID) THEN R(g, "SCOPE_DOES_NOT_EXIST")
       ELSE LET s == g.scopeIndex[fullID]
            IN IF g.scopes[s].strategy # strategy THEN R(g, "STRATEGY_MISMATCH")
               ELSE LET g1 == unlinkScopeSubscriber(g, h, s, fullID)
                        g2 == rendezvousAll(g1, g1.scopes[s].informationitems)
                    IN R(maybeGarbageCollect(g2, {s}), "SUCCESS")

\* ------------------------------------------------------- unsubscribe_info
\* A faulty unsubscription: no rendezvous for the item.
unsubscribe_info_NoRendezvous(g, h, ID, prefixID, strategy) ==
    LET fullID == prefixID \o ID
    IN IF Len(prefixID) = 0 \/ Len(ID) # 1 THEN R(g, "WRONG_IDS")
       ELSE IF ~HasItem(g, fullID) THEN R(g, "INFO_ITEM_DOES_NOT_EXIST")
       ELSE LET p == g.pubIndex[fullID]
            IN IF g.items[p].strategy # strategy THEN R(g, "STRATEGY_MISMATCH")
               ELSE LET g1 == unlinkItemSubscriber(g, h, p, fullID)
                    IN IF PublishersOf(g1.items[p]) = {} /\ SubscribersOf(g1.items[p]) = {}
                       THEN R(deleteItem(g1, p), "SUCCESS")
                       ELSE R(g1, "SUCCESS")

unsubscribe_info(g, h, ID, prefixID, strategy) ==
    LET fullID == prefixID \o ID
    IN IF Len(prefixID) = 0 \/ Len(ID) # 1 THEN R(g, "WRONG_IDS")
       ELSE IF ~HasItem(g, fullID) THEN R(g, "INFO_ITEM_DOES_NOT_EXIST")
       ELSE LET p == g.pubIndex[fullID]
            IN IF g.items[p].strategy # strategy THEN R(g, "STRATEGY_MISMATCH")
               ELSE LET g1 == unlinkItemSubscriber(g, h, p, fullID)
                        g2 == rendezvous(g1, p, ClosedSubscribers(g1, p))
                    IN IF PublishersOf(g2.items[p]) = {} /\ SubscribersOf(g2.items[p]) = {}
                       THEN R(deleteItem(g2, p), "SUCCESS")
                       ELSE R(g2, "SUCCESS")

\* ------------------------------------------------------------------ push
\* The node label is resolved to a RemoteHost, then the request is
\* dispatched on its type.
push(g, h, type, ID, prefixID, strategy) ==
    LET g0 == getRemoteHost(g, h)
    IN CASE type = "PUBLISH_SCOPE" -> publish_scope(g0, h, ID, prefixID, strategy)
         [] type = "PUBLISH_INFO" -> publish_info(g0, h, ID, prefixID, strategy)
         [] type = "UNPUBLISH_SCOPE" -> unpublish_scope(g0, h, ID, prefixID, strategy)
         [] type = "UNPUBLISH_INFO" -> unpublish_info(g0, h, ID, prefixID, strategy)
         [] type = "SUBSCRIBE_SCOPE" -> subscribe_scope(g0, h, ID, prefixID, strategy)
         [] type = "SUBSCRIBE_INFO" -> subscribe_info(g0, h, ID, prefixID, strategy)
         [] type = "UNSUBSCRIBE_SCOPE" -> unsubscribe_scope(g0, h, ID, prefixID, strategy)
         [] type = "UNSUBSCRIBE_INFO" -> unsubscribe_info(g0, h, ID, prefixID, strategy)

\* ------------------------------------------------------------ the machine
Init ==
    /\ scopes = [s \in ScopeH |-> NoScope]
    /\ items = [p \in ItemH |-> NoItem]
    /\ scopeIndex = EmptyFn
    /\ pubIndex = EmptyFn
    /\ pub_sub_Index = [h \in Hosts |-> NoHost]
    /\ lastNote = [p \in ItemH |-> "NONE"]

\* A workload: who sends requests, with which strategies, over which
\* fragments (fs at the root, is below it), and how long and how many the
\* identifiers in use may be.
Load(hs, fs, is, ss, len, n) ==
    [hosts |-> hs, frags |-> fs, inner |-> is, strategies |-> ss, maxlen |-> len,
     maxids |-> n]

LoadIDs(W, lo, hi) ==
    UNION {{id \in [1 .. k -> W.frags] : \A i \in 2 .. k : id[i] \in W.inner} :
              k \in lo .. hi}

\* A request that fits no accepted shape is represented by one identifier
\* of two fragments; the other requests have one of the accepted shapes
\* (root, inner, and republish for the publish types).
Shaped(W, q) ==
    \/ Len(q.ID) = 1
    \/ q.type \in {"PUBLISH_SCOPE", "PUBLISH_INFO"} /\ Len(q.prefixID) >= 1
    \/ Len(q.ID) = 2 /\ \A i \in 1 .. 2 : q.ID[i] = Lowest(W.frags)

\* The full identifier a request is about is one of the workload's.
Targets(W, q) == q.prefixID \o Suffix(q.ID) \in LoadIDs(W, 1, W.maxlen)

\* The requests of one type: the identifier may carry one fragment more
\* than a full identifier (the republish form), the prefix one less.
Requests(W, type) ==
    {q \in [h : W.hosts, type : {type}, ID : LoadIDs(W, 1, W.maxlen + 1),
            prefixID : LoadIDs(W, 0, W.maxlen - 1), strategy : W.strategies] :
        Shaped(W, q) /\ Targets(W, q)}

Reply(g, q) == push(g, q.h, q.type, q.ID, q.prefixID, q.strategy)

\* The graph the request leaves stays within the workload's size.
Fits(W, r) ==
    /\ r.ret # "OUT_OF_HANDLES"
    /\ Cardinality(DOMAIN r.g.scopeIndex) + Cardinality(DOMAIN r.g.pubIndex) <= W.maxids

\* The state after a request is the graph its handler leaves.
Become(g) ==
    /\ scopes' = g.scopes
    /\ items' = g.items
    /\ scopeIndex' = g.scopeIndex
    /\ pubIndex' = g.pubIndex
    /\ pub_sub_Index' = g.hosts
    /\ lastNote' = g.lastNote

\* One action per request type: the request is processed to completion.
PublishScope(W) ==
    \E q \in Requests(W, "PUBLISH_SCOPE") :
        LET r == Reply(Graph, q)
        IN /\ Fits(W, r)
           /\ Become(r.g)

PublishInfo(W) ==
    \E q \in Requests(W, "PUBLISH_INFO") :
        LET r == Reply(Graph, q)
        IN /\ Fits(W, r)
           /\ Become(r.g)

UnpublishScope(W) ==
    \E q \in Requests(W, "UNPUBLISH_SCOPE") :
        LET r == Reply(Graph, q)
        IN /\ Fits(W, r)
           /\ Become(r.g)

UnpublishInfo(W) ==
    \E q \in Requests(W, "UNPUBLISH_INFO") :
        LET r == Reply(Graph, q)
        IN /\ Fits(W, r)
           /\ Become(r.g)

SubscribeScope(W) ==
    \E q \in Requests(W, "SUBSCRIBE_SCOPE") :
        LET r == Reply(Graph, q)
        IN /\ Fits(W, r)
           /\ Become(r.g)

SubscribeInfo(W) ==
    \E q \in Requests(W, "SUBSCRIBE_INFO") :
        LET r == Reply(Graph, q)
        IN /\ Fits(W, r)
           /\ Become(r.g)

UnsubscribeScope(W) ==
    \E q \in Requests(W, "UNSUBSCRIBE_SCOPE") :
        LET r == Reply(Graph, q)
        IN /\ Fits(W, r)
           /\ Become(r.g)

UnsubscribeInfo(W) ==
    \E q \in Requests(W, "UNSUBSCRIBE_INFO") :
        LET r == Reply(Graph, q)
        IN /\ Fits(W, r)
           /\ Become(r.g)

NextOf(W) ==
    \/ PublishScope(W)
    \/ PublishInfo(W)
    \/ UnpublishScope(W)
    \/ UnpublishInfo(W)
    \/ SubscribeScope(W)
    \/ SubscribeInfo(W)
    \/ UnsubscribeScope(W)
    \/ UnsubscribeInfo(W)

\* One host, two roots: scopes and items with a second father.
Wide == Load({"A"}, Frags, Frags, {"DOMAIN_LOCAL"}, MaxLen, MaxIDs)

\* Two hosts, one identifier per level: a root, a scope under it, an item.
Chain == Load(Hosts, {1}, {1}, {"NODE_LOCAL"}, ChainLen, MaxIDs)

\* One host, two roots, two strategies.
Mixed == Load({"A"}, Frags, Frags, Strategies, MaxLen, MaxIDs)

\* One host, two roots, one identifier under each: an entity with two
\* fathers, and the removal of one of its branches.
Fork == Load({"A"}, Frags, {1}, {"DOMAIN_LOCAL"}, MaxLen, ForkIDs)

\* The chain with the strategy that asks the topology manager.
Domain == Load(Hosts, {1}, {1}, {"DOMAIN_LOCAL"}, ChainLen, MaxIDs)

Next == NextOf(Wide)
NextChain == NextOf(Chain)
NextMixed == NextOf(Mixed)
NextFork == NextOf(Fork)
NextDomain == NextOf(Domain)

Spec == Init /\ [][Next]_vars
SpecChain == Init /\ [][NextChain]_vars
SpecMixed == Init /\ [][NextMixed]_vars
SpecFork == Init /\ [][NextFork]_vars
SpecDomain == Init /\ [][NextDomain]_vars

\* ===================================================== graph properties
\* The scopes reachable from a set of scopes by father links.
RECURSIVE AncestorsOf(_, _)
AncestorsOf(g, ss) ==
    LET more == ss \cup UNION {g.scopes[s].fatherScopes : s \in ss}
    IN IF more = ss THEN ss ELSE AncestorsOf(g, more)

\* Subscribers of the item and of every ancestor scope on every path.
AncestorSubscribers(g, p) ==
    SubscribersOf(g.items[p])
        \cup UNION {SubscribersOf(g.scopes[a]) :
                       a \in AncestorsOf(g, g.items[p].fatherScopes)}

LinkedBothWays(ents, published, subscribed) ==
    \A e \in ents : \A h \in Hosts :
        /\ h \in PublishersOf(e) <=> IDsOf(e) \cap published[h] # {}
        /\ h \in SubscribersOf(e) <=> IDsOf(e) \cap subscribed[h] # {}

\* C1: after every request a host is a publisher (subscriber) of a scope or
\* item exactly when one of the entity's identifiers is in the host's
\* published (subscribed) set of that category.
C1_HostSetsMirrorEntitySets ==
    /\ LinkedBothWays({scopes[s] : s \in AliveScopes(Graph)},
                      [h \in Hosts |-> pub_sub_Index[h].publishedScopes],
                      [h \in Hosts |-> pub_sub_Index[h].subscribedScopes])
    /\ LinkedBothWays({items[p] : p \in AliveItems(Graph)},
                      [h \in Hosts |-> pub_sub_Index[h].publishedItems],
                      [h \in Hosts |-> pub_sub_Index[h].subscribedItems])

\* C1 case: B subscribes to a scope that A publishes, B publishes an item,
\* and A, known to the index, holds no item.
C1_Witness ==
    /\ \E s \in AliveScopes(Graph) :
           PublishersOf(scopes[s]) = {"A"} /\ "B" \in SubscribersOf(scopes[s])
    /\ \E p \in AliveItems(Graph) : PublishersOf(items[p]) = {"B"}
    /\ pub_sub_Index["A"].known
    /\ pub_sub_Index["A"].publishedItems = {}

\* C2 as claimed: no scope or item without publishers, subscribers and
\* children remains after a request.
C2_NoGarbageRemains ==
    /\ \A s \in AliveScopes(Graph) : ~Collectable(scopes[s])
    /\ \A p \in AliveItems(Graph) :
           PublishersOf(items[p]) # {} \/ SubscribersOf(items[p]) # {}

\* C3 as claimed: every scope and item has the strategy of each father.
C3_StrategyOfFathers ==
    /\ \A s \in AliveScopes(Graph) : \A f \in scopes[s].fatherScopes :
           scopes[s].strategy = scopes[f].strategy
    /\ \A p \in AliveItems(Graph) : \A f \in items[p].fatherScopes :
           items[p].strategy = scopes[f].strategy

\* C4: no full identifier is a key of scopeIndex and of pubIndex.
C4_IndexesDisjoint == DOMAIN scopeIndex \cap DOMAIN pubIndex = {}

\* C4 case: an item holds an identifier that a scope is asked to take, and
\* a scope holds one that an item is asked to take; both are refused.
C4_Witness ==
    /\ \E q \in Requests(Wide, "PUBLISH_SCOPE") :
           Reply(Graph, q).ret = "INFO_ITEM_EXISTS"
    /\ \E q \in Requests(Wide, "PUBLISH_INFO") :
           Reply(Graph, q).ret = "SCOPE_EXISTS"

\* C5: the identifiers of a scope (item) are keys of scopeIndex (pubIndex)
\* that map to it, and every key is an identifier of the entity it maps to.
C5_IndexesResolve ==
    /\ \A s \in AliveScopes(Graph) : \A i \in IDsOf(scopes[s]) :
           i \in DOMAIN scopeIndex /\ scopeIndex[i] = s
    /\ \A p \in AliveItems(Graph) : \A i \in IDsOf(items[p]) :
           i \in DOMAIN pubIndex /\ pubIndex[i] = p
    /\ \A i \in DOMAIN scopeIndex :
           scopes[scopeIndex[i]].alive /\ i \in IDsOf(scopes[scopeIndex[i]])
    /\ \A i \in DOMAIN pubIndex :
           items[pubIndex[i]].alive /\ i \in IDsOf(items[pubIndex[i]])

\* C5 case: a scope with two fathers has lost one of its branches (it is
\* left without publishers), and a scope has been deleted (a handle below
\* a live one is free).
C5_Witness ==
    /\ \E s \in AliveScopes(Graph) :
           PublishersOf(scopes[s]) = {} /\ scopes[s].fatherScopes # {}
              /\ SubscribersOf(scopes[s]) = {} /\ scopes[s].childrenScopes = {}
              /\ scopes[s].informationitems = {}
    /\ \E s \in AliveScopes(Graph) : \E x \in FreeScopes(Graph) : x < s

PrefixIsFather(e) ==
    \A i \in IDsOf(e) :
        \/ Prefix(i) = <<>>
        \/ \E f \in e.fatherScopes : scopes[f].alive /\ Prefix(i) \in IDsOf(scopes[f])

\* C6: the identifier of an entity without its last fragment is empty or an
\* identifier of one of the entity's fathers.
C6_PrefixIsFather ==
    /\ \A s \in AliveScopes(Graph) : PrefixIsFather(scopes[s])
    /\ \A p \in AliveItems(Graph) : PrefixIsFather(items[p])

\* C6 case: a scope has a father that carries two identifiers, the second
\* gained under a father of its own.
C6_Witness ==
    \E c \in AliveScopes(Graph) : \E f \in scopes[c].fatherScopes :
        /\ f # c
        /\ Cardinality(IDsOf(scopes[f])) = 2
        /\ scopes[f].fatherScopes # {}
        /\ c \notin scopes[f].fatherScopes

\* C7 as claimed: no scope is its own ancestor.
C7_Acyclic ==
    \A s \in AliveScopes(Graph) : s \notin AncestorsOf(Graph, scopes[s].fatherScopes)

\* ==================================================== request properties
Types ==
    {"PUBLISH_SCOPE", "PUBLISH_INFO", "UNPUBLISH_SCOPE", "UNPUBLISH_INFO",
     "SUBSCRIBE_SCOPE", "SUBSCRIBE_INFO", "UNSUBSCRIBE_SCOPE", "UNSUBSCRIBE_INFO"}

\* The requests a state is probed with: those of the chain, with either
\* strategy.
Probes == UNION {Requests([Chain EXCEPT !.strategies = Strategies], t) : t \in Types}

\* C8: a request that does not return SUCCESS leaves the scopes, the
\* items, scopeIndex, pubIndex and the sets of every host as they were and
\* sends nothing; pub_sub_Index changes at most by the record, with four
\* empty sets, constructed for a requester it did not hold.
C8_FailureChangesOnlyHostRecord ==
    \A q \in Probes :
        LET r == Reply(Graph, q)
        IN r.ret # "SUCCESS" => r.g = [Graph EXCEPT !.hosts[q.h].known = TRUE]

\* C8 as claimed: a request that does not return SUCCESS leaves the three
\* indexes, with everything else, exactly as they were.
C8_FailureChangesNothing ==
    \A q \in Probes :
        LET r == Reply(Graph, q)
        IN r.ret # "SUCCESS" => r.g = Graph

\* C8 case: over a populated graph a known host is refused for the
\* strategy, for a missing father, and for an identifier held by an item.
C8_Witness ==
    /\ pubIndex # EmptyFn
    /\ \A c \in {"STRATEGY_MISMATCH", "PARENT_DOES_NOT_EXIST", "INFO_ITEM_EXISTS"} :
           \E q \in Probes : pub_sub_Index[q.h].known /\ Reply(Graph, q).ret = c

\* C9: an item with a publisher and with a subscriber of its own or of one
\* of its father scopes was last notified with START.
C9_MatchedIsStarted ==
    \A p \in AliveItems(Graph) :
        PublishersOf(items[p]) # {} /\ ClosedSubscribers(Graph, p) # {}
            => lastNote[p] = "START"

\* C9 as claimed: an item with a publisher and with a subscriber of its own
\* or of any ancestor scope was last notified with START.
C9_AncestorMatchedIsStarted ==
    \A p \in AliveItems(Graph) :
        PublishersOf(items[p]) # {} /\ AncestorSubscribers(Graph, p) # {}
            => lastNote[p] = "START"

\* C9 case: a published item without subscribers of its own is matched by
\* a subscriber of its father scope.
C9_Witness ==
    \E p \in AliveItems(Graph) :
        /\ PublishersOf(items[p]) # {}
        /\ SubscribersOf(items[p]) = {}
        /\ ClosedSubscribers(Graph, p) # {}
        /\ lastNote[p] = "START"

\* The item has left the graph, or lacks a publisher, or lacks a subscriber
\* of its own and of its father scopes (as does every item that lacks a
\* subscriber among all its ancestors).
Unmatched(g, p) ==
    \/ ~g.items[p].alive
    \/ PublishersOf(g.items[p]) = {}
    \/ ClosedSubscribers(g, p) = {}

\* The positions, in the notifications of a request, of those that tell
\* the publishers of an item with the identifiers ids to start or stop.
NotesAbout(out, ids) ==
    {i \in 1 .. Len(out) :
        out[i].type \in {"START_PUBLISH", "STOP_PUBLISH"} /\ out[i].ids \cap ids # {}}

LastNoteStops(out, ids) ==
    /\ NotesAbout(out, ids) # {}
    /\ \E i \in NotesAbout(out, ids) :
           /\ \A j \in NotesAbout(out, ids) : j <= i
           /\ out[i].type = "STOP_PUBLISH"

Removals == {"UNPUBLISH_SCOPE", "UNPUBLISH_INFO", "UNSUBSCRIBE_SCOPE", "UNSUBSCRIBE_INFO"}

\* What an unpublish or unsubscribe request does to a started item that it
\* leaves unmatched.
StopsWhatItUnmatches(q, p) ==
    LET r == Reply(Graph, q)
    IN lastNote[p] = "START" /\ r.ret = "SUCCESS" /\ Unmatched(r.g, p)
           => /\ LastNoteStops(r.g.out, IDsOf(items[p]))
              /\ r.g.lastNote[p] # "START"

Quiet(g) ==
    [g EXCEPT !.out = <<>>,
              !.visited = <<>>,
              !.scopes = [s \in ScopeH |-> [@[s] EXCEPT !.ids = @ @@ <<>>]] @@ <<>>,
              !.items = [p \in ItemH |-> [@[p] EXCEPT !.ids = @ @@ <<>>]] @@ <<>>]

\* The scopes, the items with their links and sets, and the three indexes.
Held(g) ==
    [scopes |-> g.scopes, items |-> g.items, scopeIndex |-> g.scopeIndex,
     pubIndex |-> g.pubIndex, hosts |-> g.hosts]

\* The request q processed twice in a row holds what it held after once.
SecondChangesNothing(W) ==
    \A t \in Types : \A q \in Requests(W, t) :
        LET r1 == Reply(Graph, q)
            r2 == Reply(Quiet(r1.g), q)
        IN Held(r2.g) = Held(r1.g)

\* rendezvous run twice for an item sends the second time what it sent
\* the first.
RendezvousRepeats ==
    \A p \in AliveItems(Graph) :
        LET g1 == rendezvous(Graph, p, ClosedSubscribers(Graph, p))
            g2 == rendezvous(Quiet(g1), p, ClosedSubscribers(g1, p))
        IN g2.out = g1.out /\ g1.out # <<>>

Publishes(g, h, X) ==
    X \in g.hosts[h].publishedScopes \cup g.hosts[h].publishedItems

\* The identifiers a host is linked to, as publisher or as subscriber.
RefersTo(g, h) ==
    g.hosts[h].publishedScopes \cup g.hosts[h].subscribedScopes
        \cup g.hosts[h].publishedItems \cup g.hosts[h].subscribedItems

\* Some host other than h holds a reference to the identifier X.
OthersReferTo(g, h, X) == \E o \in Hosts \ {h} : X \in RefersTo(g, o)

\* The four sets of every host.
HostSets(g) == [h \in Hosts |-> [g.hosts[h] EXCEPT !.known = TRUE]]

\* Scopes, items, links, indexes and host sets of a are those of b.
SameGraph(a, b) ==
    /\ a.scopes = b.scopes /\ a.items = b.items
    /\ a.scopeIndex = b.scopeIndex /\ a.pubIndex = b.pubIndex
    /\ HostSets(a) = HostSets(b)

\* The unpublish request that answers the publish request q.
Undo(q) ==
    [q EXCEPT !.type = IF q.type = "PUBLISH_SCOPE" THEN "UNPUBLISH_SCOPE"
                       ELSE "UNPUBLISH_INFO",
              !.ID = Suffix(q.ID)]

\* The round trip of the publish request q from the current graph: the
\* unpublish succeeds and restores the graph.
RoundTrip(q) ==
    LET X == q.prefixID \o Suffix(q.ID)
        r1 == Reply(Graph, q)
        r2 == Reply(Quiet(r1.g), Undo(q))
    IN (/\ r1.ret = "SUCCESS"
        /\ ~Publishes(Graph, q.h, X)
        /\ ~OthersReferTo(Graph, q.h, X))
       => r2.ret = "SUCCESS" /\ SameGraph(Quiet(r2.g), Quiet(Graph))

Publications == Requests(Fork, "PUBLISH_SCOPE") \cup Requests(Fork, "PUBLISH_INFO")

\* C12 as claimed: a successful publish of X by a host that did not publish
\* X, followed by the host's unpublish of X, restores scopes, items, links,
\* indexes and host sets, when no other host refers to X.
C12_PublishUnpublishRestores ==
    \A q \in Publications : RoundTrip(q)

\* ------------------------------------------------------- a missing father
\* The requests that subscribe_info, advertise_info, publish_inner_scope
\* and subscribe_inner_scope handle: one fragment under a prefix.
UnderPrefix ==
    {q \in Probes :
        /\ q.type \in {"PUBLISH_SCOPE", "PUBLISH_INFO", "SUBSCRIBE_SCOPE", "SUBSCRIBE_INFO"}
        /\ Len(q.ID) = 1 /\ Len(q.prefixID) >= 1}

\* The prefix of the request is not an identifier of a scope of the graph.
Fatherless(q) == q.prefixID \notin DOMAIN scopeIndex

\* C13: a request for one fragment under a prefix that is not an existing
\* scope returns PARENT_DOES_NOT_EXIST and leaves scopes, items, indexes and
\* host sets as they were, sending nothing; pub_sub_Index changes at most
\* by the empty record constructed for a requester it did not hold.
C13_MissingFatherChangesOnlyHostRecord ==
    \A q \in UnderPrefix :
        LET r == Reply(Graph, q)
        IN Fatherless(q) =>
              /\ r.ret = "PARENT_DOES_NOT_EXIST"
              /\ r.g = [Graph EXCEPT !.hosts[q.h].known = TRUE]

\* C13 as claimed: such a request returns PARENT_DOES_NOT_EXIST and leaves
\* all state unchanged.
C13_MissingFatherChangesNothing ==
    \A q \in UnderPrefix :
        LET r == Reply(Graph, q)
        IN Fatherless(q) => r.ret = "PARENT_DOES_NOT_EXIST" /\ r.g = Graph

\* C13 case: over a populated graph each of the four handlers is asked, by
\* a known host, for an entity under a prefix that is an item, not a scope.
C13_Witness ==
    \A t \in {"PUBLISH_SCOPE", "PUBLISH_INFO", "SUBSCRIBE_SCOPE", "SUBSCRIBE_INFO"} :
        \E q \in UnderPrefix :
            /\ q.type = t /\ Fatherless(q) /\ q.prefixID \in DOMAIN pubIndex
            /\ pub_sub_Index[q.h].known
            /\ Reply(Graph, q).ret = "PARENT_DOES_NOT_EXIST"

\* ------------------------------------------------------ strategy mismatch
\* The publish and subscribe requests of the two-strategy workload that
\* have an accepted shape.
Offers ==
    {q \in UNION {Requests(Mixed, t) :
              t \in {"PUBLISH_SCOPE", "PUBLISH_INFO", "SUBSCRIBE_SCOPE", "SUBSCRIBE_INFO"}} :
        \/ Len(q.ID) = 1
        \/ q.type \in {"PUBLISH_SCOPE", "PUBLISH_INFO"} /\ Len(q.prefixID) >= 1}

\* The entities of the kind the request is about, by identifier.
KindIndex(q) ==
    IF q.type \in {"PUBLISH_SCOPE", "SUBSCRIBE_SCOPE"} THEN scopeIndex ELSE pubIndex

StrategyAt(q, id) ==
    IF q.type \in {"PUBLISH_SCOPE", "SUBSCRIBE_SCOPE"}
    THEN scopes[scopeIndex[id]].strategy
    ELSE items[pubIndex[id]].strategy

\* The request names an existing entity of its kind: the target, or the
\* source of a republication under an existing father that is free to take
\* the target.
Named(q) ==
    LET X == q.prefixID \o Suffix(q.ID)
    IN IF Len(q.ID) = 1 THEN {X} \cap DOMAIN KindIndex(q)
       ELSE IF /\ q.prefixID \in DOMAIN scopeIndex
               /\ Prefix(q.ID) \in DOMAIN KindIndex(q)
               /\ X \notin DOMAIN scopeIndex \cup DOMAIN pubIndex
            THEN {Prefix(q.ID)}
            ELSE IF /\ X \in DOMAIN KindIndex(q)
                    /\ Prefix(q.ID) \in DOMAIN KindIndex(q)
                    /\ KindIndex(q)[X] = KindIndex(q)[Prefix(q.ID)]
                 THEN {X}
                 ELSE {}

\* The request would make a new entity, or a new branch of its source,
\* under an existing father.
WouldCreate(q) ==
    LET X == q.prefixID \o Suffix(q.ID)
    IN /\ X \notin DOMAIN scopeIndex \cup DOMAIN pubIndex
       /\ q.prefixID \in DOMAIN scopeIndex
       /\ Len(q.ID) > 1 => Prefix(q.ID) \in DOMAIN KindIndex(q)

\* The strategy of the request differs from the strategy of an entity it
\* names, or of the father under which it would create.
Mismatches(q) ==
    \/ \E id \in Named(q) : StrategyAt(q, id) # q.strategy
    \/ WouldCreate(q) /\ scopes[scopeIndex[q.prefixID]].strategy # q.strategy

\* The request is refused for its strategy and nothing is created, linked
\* or changed.
Refused(q) ==
    LET r == Reply(Graph, q)
    IN r.ret = "STRATEGY_MISMATCH" /\ SameGraph(r.g, Graph)

\* C14 as claimed: a publish or subscribe request whose strategy differs
\* from the strategy of the existing entity it names, or of the existing
\* father under which it would create, returns STRATEGY_MISMATCH, creates
\* no entity, links no host and changes no strategy.
C14_MismatchIsRefused ==
    \A q \in Offers : Mismatches(q) => Refused(q)

\* ----------------------------------------------------------- republication
\* The republications of a scope in the fork workload.
Republications == {q \in Requests(Fork, "PUBLISH_SCOPE") : Len(q.ID) > 1}

\* The hosts subscribed to the scope with the handle f, by their own sets.
SubscribedTo(f) ==
    {h \in Hosts : pub_sub_Index[h].subscribedScopes \cap IDsOf(scopes[f]) # {}}

\* q republishes, for the first time, an existing scope under a father
\* that is not one of its fathers yet.
FirstUnderSecondFather(q) ==
    /\ Prefix(q.ID) \in DOMAIN scopeIndex
    /\ q.prefixID \in DOMAIN scopeIndex
    /\ q.prefixID \o Suffix(q.ID) \notin DOMAIN scopeIndex
    /\ scopeIndex[q.prefixID] \notin scopes[scopeIndex[Prefix(q.ID)]].fatherScopes
    /\ Reply(Graph, q).ret = "SUCCESS"

\* The subscribers of the earlier fathers of the scope that q republishes.
EarlierSubscribers(q) ==
    UNION {SubscribedTo(o) : o \in scopes[scopeIndex[Prefix(q.ID)]].fatherScopes}

\* The subscribers of the new father that q is to tell of the scope.
NewSubscribers(q) == SubscribedTo(scopeIndex[q.prefixID]) \ EarlierSubscribers(q)

\* The scope resolves under the old and the new identifier, and carries
\* both; the other identifiers resolve as before.
ResolvesUnderBoth(q) ==
    LET r == Reply(Graph, q)
        s == scopeIndex[Prefix(q.ID)]
        X == q.prefixID \o Suffix(q.ID)
    IN /\ DOMAIN r.g.scopeIndex = DOMAIN scopeIndex \cup {X}
       /\ r.g.scopeIndex[X] = s
       /\ \A i \in DOMAIN scopeIndex : r.g.scopeIndex[i] = scopeIndex[i]
       /\ IDsOf(r.g.scopes[s]) = IDsOf(scopes[s]) \cup {X}
       /\ scopeIndex[q.prefixID] \in r.g.scopes[s].fatherScopes
       /\ s \in r.g.scopes[scopeIndex[q.prefixID]].childrenScopes

\* One SCOPE_PUBLISHED with all the identifiers of the scope for the
\* subscribers of the new father, nothing for a subscriber of an earlier
\* father, and nothing else.
ToldNewFatherOnly(q) ==
    LET r == Reply(Graph, q)
        s == scopeIndex[Prefix(q.ID)]
    IN /\ \A k \in 1 .. Len(r.g.out) :
              /\ r.g.out[k].type = "SCOPE_PUBLISHED"
              /\ r.g.out[k].ids = IDsOf(r.g.scopes[s])
              /\ r.g.out[k].subs = NewSubscribers(q)
       /\ Len(r.g.out) = IF NewSubscribers(q) = {} THEN 0 ELSE 1
       /\ \A k \in 1 .. Len(r.g.out) : r.g.out[k].subs \cap EarlierSubscribers(q) = {}

\* C15: a successful first republication of a scope under a second father
\* adds the new identifier to the same scope, which resolves under the old
\* and the new identifier; SCOPE_PUBLISHED with all the identifiers of the
\* scope goes to the subscribers of the new father, and nothing goes to a
\* host subscribed to an earlier father of the scope.
C15_RepublishedUnderBoth ==
    \A q \in Republications :
        FirstUnderSecondFather(q) => ResolvesUnderBoth(q) /\ ToldNewFatherOnly(q)

\* C15 case: a scope under a father is republished under a second father
\* that has a subscriber, who is told of both identifiers.
C15_Witness ==
    \E q \in Republications :
        /\ FirstUnderSecondFather(q)
        /\ scopes[scopeIndex[Prefix(q.ID)]].fatherScopes # {}
        /\ Len(Reply(Graph, q).g.out) = 1
        /\ Cardinality(Reply(Graph, q).g.out[1].ids) = 2

\* ------------------------------------------- topology-manager requests
\* The hosts that hold an identifier of the item p of g among their
\* published items.
HostsPublishing(g, p) ==
    {h \in Hosts : g.hosts[h].publishedItems \cap IDsOf(g.items[p]) # {}}

\* The hosts subscribed to the item p of g or to one of the scopes fs.
HostsSubscribed(g, p, fs) ==
    {h \in Hosts :
        \/ g.hosts[h].subscribedItems \cap IDsOf(g.items[p]) # {}
        \/ \E f \in fs : g.hosts[h].subscribedScopes \cap IDsOf(g.scopes[f]) # {}}

\* The publications of an item that create it or add a publisher to it.
NewPublications ==
    {q \in Requests(Domain, "PUBLISH_INFO") :
        /\ Reply(Graph, q).ret = "SUCCESS"
        /\ q.prefixID \o Suffix(q.ID) \notin pub_sub_Index[q.h].publishedItems}

\* The request q sent one MATCH_PUB_SUBS to the topology manager, and
\* nothing else, with the publishers, the identifiers and the strategy of
\* the item, and the subscribers of the item and of the scopes up(g, p).
OneMatchRequest(q, up(_, _)) ==
    LET g == Reply(Graph, q).g
        p == g.pubIndex[q.prefixID \o Suffix(q.ID)]
    IN /\ Len(g.out) = 1
       /\ g.out[1].type = "MATCH_PUB_SUBS" /\ g.out[1].via = "TM"
       /\ g.out[1].pubs = HostsPublishing(g, p)
       /\ g.out[1].ids = IDsOf(g.items[p])
       /\ g.out[1].strategy = "DOMAIN_LOCAL"
       /\ g.out[1].subs = HostsSubscribed(g, p, up(g, p))

FathersOf(g, p) == g.items[p].fatherScopes
AllAncestorsOf(g, p) == AncestorsOf(g, g.items[p].fatherScopes)

Departures ==
    {q \in Requests(Domain, "UNSUBSCRIBE_INFO") :
        LET X == q.prefixID \o q.ID
        IN /\ Len(q.ID) = 1 /\ X \in DOMAIN pubIndex
           /\ q.h \in SubscribersOf(items[pubIndex[X]])
           /\ Cardinality(SubscribersOf(items[pubIndex[X]])) >= 2
           /\ PublishersOf(items[pubIndex[X]]) # {}
           /\ Reply(Graph, q).ret = "SUCCESS"}

\* The item stays, without the subscriber, and one MATCH_PUB_SUBS carries
\* its publishers and the subscribers subs(q).
Rematched(q, subs(_)) ==
    LET g == Reply(Graph, q).g
        X == q.prefixID \o q.ID
        p == pubIndex[X]
    IN /\ X \in DOMAIN g.pubIndex /\ g.pubIndex[X] = p /\ g.items[p].alive
       /\ SubscribersOf(g.items[p]) = SubscribersOf(items[p]) \ {q.h}
       /\ Len(g.out) = 1
       /\ g.out[1].type = "MATCH_PUB_SUBS" /\ g.out[1].via = "TM"
       /\ g.out[1].pubs = PublishersOf(items[p])
       /\ g.out[1].pubs = HostsPublishing(g, p)
       /\ g.out[1].subs = subs(q)

\* The subscribers left to the item, with the subscribers of its fathers.
RemainingAndFathers(q) ==
    LET g == Reply(Graph, q).g
        p == pubIndex[q.prefixID \o q.ID]
    IN HostsSubscribed(g, p, g.items[p].fatherScopes)

\* The subscribers left to the item.
Remaining(q) == SubscribersOf(items[pubIndex[q.prefixID \o q.ID]]) \ {q.h}

\* C17: when one of several subscribers of a DOMAIN_LOCAL item with a
\* publisher unsubscribes, the item is not deleted and a new MATCH_PUB_SUBS
\* carries the publishers of the item and, as subscribers, the remaining
\* subscribers of the item with the subscribers of its father scopes.
C17_RematchedWithFathers ==
    \A q \in Departures : Rematched(q, RemainingAndFathers)

\* C17 as claimed: the subscribers carried are exactly the remaining
\* subscribers of the item; the departed host is not among them.
C17_RematchedWithRemaining ==
    \A q \in Departures : Rematched(q, Remaining)

\* C17 case: of the two subscribers of a published item one leaves, and
\* the request carries the other alone.
C17_Witness ==
    \E q \in Departures :
        LET n == Reply(Graph, q).g.out[1]
        IN n.subs = Remaining(q) /\ Cardinality(n.subs) = 1 /\ n.pubs # {}

\* ------------------------------------------------------ unaccepted shapes
\* The shapes accepted for the type of the request: a root scope, an
\* entity under a prefix, and a republication for the publish types.
Accepted(q) ==
    \/ /\ Len(q.prefixID) = 0 /\ Len(q.ID) = 1
       /\ q.type \in {"PUBLISH_SCOPE", "UNPUBLISH_SCOPE", "SUBSCRIBE_SCOPE",
                      "UNSUBSCRIBE_SCOPE"}
    \/ Len(q.prefixID) >= 1 /\ Len(q.ID) = 1
    \/ /\ Len(q.prefixID) >= 1 /\ Len(q.ID) >= 2
       /\ q.type \in {"PUBLISH_SCOPE", "PUBLISH_INFO"}

Misshapen == {q \in Probes : ~Accepted(q)}

C19_InvariantsBetweenRequests ==
    /\ C4_IndexesDisjoint
    /\ C5_IndexesResolve
    /\ C6_PrefixIsFather
    /\ C1_HostSetsMirrorEntitySets
    /\ C3_StrategyOfFathers
    /\ C2_NoGarbageRemains

\* ------------------------------------------- the order within a handler
ItemNotes == {"START_PUBLISH", "STOP_PUBLISH", "MATCH_PUB_SUBS"}

\* The requests of every type of the two-strategy workload.
Calls == UNION {Requests(Mixed, t) : t \in Types}

\* The request creates a scope under a father scope.
CreatesScopeUnder(q) ==
    /\ q.type \in {"PUBLISH_SCOPE", "SUBSCRIBE_SCOPE"}
    /\ Len(q.ID) = 1 /\ Len(q.prefixID) >= 1
    /\ q.prefixID \o q.ID \notin DOMAIN scopeIndex
    /\ Reply(Graph, q).ret = "SUCCESS"

\* The scope created is announced to the subscribers of its father first:
\* no notification about an identifier under the scope comes before it.
AnnouncedBeforeChildren(q) ==
    LET out == Reply(Graph, q).g.out
        X == q.prefixID \o q.ID
        to == SubscribedTo(scopeIndex[q.prefixID])
    IN /\ to # {} =>
              /\ Len(out) >= 1
              /\ out[1].type = "SCOPE_PUBLISHED" /\ out[1].ids = {X} /\ out[1].subs = to
       /\ \A k \in 1 .. Len(out) :
              (\E i \in out[k].ids : Len(i) > Len(X) /\ SubSeq(i, 1, Len(X)) = X)
                  => k > 1 /\ to # {}

\* A notification about an item carries the publishers of the item, and
\* the subscribers of the item and of its fathers, as the handler leaves
\* them; of an item that the handler deletes, it carries the publishers
\* without the host that unpublished.
CarriesFinalSets(q) ==
    LET g == Reply(Graph, q).g
    IN \A k \in 1 .. Len(g.out) :
           g.out[k].type \in ItemNotes =>
               LET left == g.out[k].ids \cap DOMAIN g.pubIndex
               IN IF left # {}
                  THEN \A i \in left :
                           LET p == g.pubIndex[i]
                           IN /\ g.out[k].pubs = HostsPublishing(g, p)
                              /\ g.out[k].subs = HostsSubscribed(g, p, g.items[p].fatherScopes)
                  ELSE q.type \in {"UNPUBLISH_SCOPE", "UNPUBLISH_INFO"}
                           => q.h \notin g.out[k].pubs

ScopePublications ==
    {q \in Probes :
        /\ q.type = "PUBLISH_SCOPE" /\ Len(q.ID) = 1
        /\ Reply(Graph, q).ret = "SUCCESS"}

\* What a publication of a scope is to send: SCOPE_PUBLISHED with the new
\* identifier to the subscribers of the father when the scope is created
\* under a father that has subscribers, nothing otherwise.
AnnouncesCreationOnly(q) ==
    LET out == Reply(Graph, q).g.out
        X == q.prefixID \o q.ID
    IN IF Len(q.prefixID) = 0 \/ X \in DOMAIN scopeIndex
       THEN out = <<>>
       ELSE LET to == SubscribedTo(scopeIndex[q.prefixID])
            IN IF to = {} THEN out = <<>>
               ELSE /\ Len(out) = 1
                    /\ out[1].type = "SCOPE_PUBLISHED"
                    /\ out[1].ids = {X}
                    /\ out[1].subs = to

\* C21: publish_inner_scope sends SCOPE_PUBLISHED only when it creates the
\* scope, to the subscribers of the father scope and to nobody else; the
\* publication of a root scope, and of a scope that exists, sends nothing.
C21_AnnouncesCreationToFather ==
    \A q \in ScopePublications : AnnouncesCreationOnly(q)

\* C21 case: a scope is created under a father whose subscriber is told,
\* while the father's own father has a subscriber who is not; and in the
\* same graph a publisher is added to an existing inner scope.
C21_Witness ==
    /\ \E q \in ScopePublications :
           LET out == Reply(Graph, q).g.out
           IN /\ Len(q.prefixID) = 2
              /\ q.prefixID \o q.ID \notin DOMAIN scopeIndex
              /\ Len(out) = 1
              /\ SubscribedTo(scopeIndex[Prefix(q.prefixID)]) \ out[1].subs # {}
    /\ \E q \in ScopePublications :
           /\ Len(q.prefixID) = 1
           /\ q.prefixID \o q.ID \in DOMAIN scopeIndex
           /\ q.prefixID \o q.ID \notin pub_sub_Index[q.h].publishedScopes

\* ------------------------------------------- the items of an unpublished scope
\* The unpublications of a scope that succeed.
ScopeUnpublications ==
    {q \in Probes \cup Requests(Fork, "UNPUBLISH_SCOPE") :
        q.type = "UNPUBLISH_SCOPE" /\ Reply(Graph, q).ret = "SUCCESS"}

\* The items directly under the scope the request names.
ItemsUnder(q) == scopes[scopeIndex[q.prefixID \o q.ID]].informationitems

\* The publishers an item of the graph is left with when the host gives up
\* the identifiers of the item under the scope's identifier X.
PublishersLeft(p, h, X) ==
    UNION {IF Prefix(id) = X THEN items[p].ids[id].pubs \ {h}
           ELSE items[p].ids[id].pubs : id \in IDsOf(items[p])}

\* The host publishes, under the identifier of the scope, no item that is
\* left under the scope.
PublishesNoneUnder(q) ==
    LET g == Reply(Graph, q).g
        X == q.prefixID \o q.ID
    IN \A p \in ItemsUnder(q) :
           g.items[p].alive =>
               \A id \in IDsOf(g.items[p]) :
                   Prefix(id) = X => q.h \notin g.items[p].ids[id].pubs

\* Rendezvous took place again for every item the host published under the
\* scope, with the publishers the item is left with.
RendezvousForPublished(q) ==
    LET g == Reply(Graph, q).g
        X == q.prefixID \o q.ID
    IN \A p \in ItemsUnder(q) :
           (\E id \in IDsOf(items[p]) :
                Prefix(id) = X /\ q.h \in items[p].ids[id].pubs) =>
               \E i \in 1 .. Len(g.out) :
                   /\ g.out[i].type \in ItemNotes
                   /\ g.out[i].ids \subseteq IDsOf(items[p])
                   /\ g.out[i].pubs = PublishersLeft(p, q.h, X)

\* No item that was under the scope is left in the graph without
\* publishers and subscribers.
EmptyItemsDeleted(q) ==
    LET g == Reply(Graph, q).g
    IN \A p \in ItemsUnder(q) :
           g.items[p].alive =>
               PublishersOf(g.items[p]) \cup SubscribersOf(g.items[p]) # {}

\* An item another host publishes, or any host subscribes to, stays with
\* its identifiers, its subscribers and its other publishers; the sets of
\* the other hosts stay as they were.
OthersUnaffected(q) ==
    LET g == Reply(Graph, q).g
        X == q.prefixID \o q.ID
    IN /\ \A p \in ItemsUnder(q) :
              PublishersLeft(p, q.h, X) # {} \/ SubscribersOf(items[p]) # {} =>
                  /\ g.items[p].alive
                  /\ IDsOf(g.items[p]) = IDsOf(items[p])
                  /\ g.items[p].fatherScopes = items[p].fatherScopes
                  /\ \A id \in IDsOf(items[p]) :
                         /\ g.pubIndex[id] = p
                         /\ g.items[p].ids[id].subs = items[p].ids[id].subs
                         /\ g.items[p].ids[id].pubs =
                                IF Prefix(id) = X THEN items[p].ids[id].pubs \ {q.h}
                                ELSE items[p].ids[id].pubs
       /\ \A h \in Hosts \ {q.h} : g.hosts[h] = pub_sub_Index[h]

BranchUnpublications ==
    {q \in Requests(Fork, "UNPUBLISH_SCOPE") : Reply(Graph, q).ret = "SUCCESS"}

\* The scope q names has several fathers, and q leaves it without
\* publishers, subscribers and children.
LeavesBranchEmpty(q) ==
    LET X == q.prefixID \o q.ID
        sc == scopes[scopeIndex[X]]
    IN /\ Cardinality(sc.fatherScopes) >= 2
       /\ sc.childrenScopes = {}
       /\ SubscribersOf(sc) = {}
       /\ \A id \in IDsOf(sc) : sc.ids[id].pubs \subseteq (IF id = X THEN {q.h} ELSE {})
       /\ \A p \in sc.informationitems :
              /\ SubscribersOf(items[p]) = {}
              /\ PublishersLeft(p, q.h, X) = {}

\* Only the branch q names is removed: its identifier leaves scopeIndex and
\* the scope, its father forgets the child, and the scope still resolves
\* under its other identifiers, with its other fathers.
OnlyBranchRemoved(q) ==
    LET g == Reply(Graph, q).g
        X == q.prefixID \o q.ID
        s == scopeIndex[X]
        f == scopeIndex[q.prefixID]
    IN /\ X \notin DOMAIN g.scopeIndex
       /\ g.scopes[s].alive
       /\ IDsOf(g.scopes[s]) = IDsOf(scopes[s]) \ {X}
       /\ \A id \in IDsOf(g.scopes[s]) : g.scopeIndex[id] = s
       /\ s \notin g.scopes[f].childrenScopes
       /\ g.scopes[s].fatherScopes = scopes[s].fatherScopes \ {f}
       /\ \A o \in g.scopes[s].fatherScopes :
              g.scopes[o].alive /\ s \in g.scopes[o].childrenScopes

\* The scopes and items of g that have an identifier under an identifier
\* that t carried before the request.
StillUnder(g, t) ==
    {i \in DOMAIN g.scopeIndex \cup DOMAIN g.pubIndex : Prefix(i) \in IDsOf(scopes[t])}

\* No scope with a child left is deleted, and every father of an entity
\* that is left is a scope of the graph that holds the entity as a child.
ChildrenKeepFathers(q) ==
    LET g == Reply(Graph, q).g
    IN /\ \A t \in AliveScopes(Graph) :
              ~g.scopes[t].alive => StillUnder(g, t) = {}
       /\ \A c \in AliveScopes(g) : \A f \in g.scopes[c].fatherScopes :
              g.scopes[f].alive /\ c \in g.scopes[f].childrenScopes
       /\ \A p \in AliveItems(g) : \A f \in g.items[p].fatherScopes :
              g.scopes[f].alive /\ p \in g.scopes[f].informationitems
       /\ \A i \in DOMAIN g.scopeIndex :
              Len(i) > 1 =>
                  /\ Prefix(i) \in DOMAIN g.scopeIndex
                  /\ g.scopeIndex[Prefix(i)] \in g.scopes[g.scopeIndex[i]].fatherScopes
       /\ \A i \in DOMAIN g.pubIndex :
              /\ Prefix(i) \in DOMAIN g.scopeIndex
              /\ g.scopeIndex[Prefix(i)] \in g.items[g.pubIndex[i]].fatherScopes

\* C23: when a scope republished under several fathers is unpublished
\* under one identifier and left without publishers, subscribers and
\* children, only that branch is removed (the identifier leaves scopeIndex,
\* the father of the branch forgets the child) and the scope still
\* resolves under its other identifiers; no scope that still has a child
\* scope or an item is deleted, and no descendant loses a father.
C23_OnlyBranchRemoved ==
    \A q \in BranchUnpublications :
        /\ LeavesBranchEmpty(q) => OnlyBranchRemoved(q)
        /\ ChildrenKeepFathers(q)

\* C23 case: a scope with two fathers is unpublished under one of them by
\* its only publisher; and in the same graph the only publisher of one of
\* those fathers unpublishes it, which leaves the father and its child.
C23_Witness ==
    /\ \E q \in BranchUnpublications :
           /\ LeavesBranchEmpty(q)
           /\ q.h \in scopes[scopeIndex[q.prefixID \o q.ID]].ids[q.prefixID \o q.ID].pubs
    /\ \E q \in BranchUnpublications :
           LET s == scopeIndex[q.prefixID \o q.ID]
           IN /\ PublishersOf(scopes[s]) = {q.h} /\ SubscribersOf(scopes[s]) = {}
              /\ scopes[s].childrenScopes # {}
              /\ s \notin scopes[s].childrenScopes
              /\ Reply(Graph, q).g.scopes[s].alive
              /\ Reply(Graph, q).g.scopes[s].childrenScopes = scopes[s].childrenScopes

\* ------------------------------------------------ the subscription to a scope
\* The subscriptions to a scope, of the root or the inner form, that
\* succeed.
ScopeSubscriptions ==
    {q \in Calls \cup Probes :
        /\ q.type = "SUBSCRIBE_SCOPE" /\ Len(q.ID) = 1
        /\ Reply(Graph, q).ret = "SUCCESS"}

\* The request leaves the host linked to the scope as a subscriber.
SubscriberLinked(q) ==
    LET g == Reply(Graph, q).g
        X == q.prefixID \o q.ID
    IN /\ X \in DOMAIN g.scopeIndex
       /\ q.h \in g.scopes[g.scopeIndex[X]].ids[X].subs
       /\ X \in g.hosts[q.h].subscribedScopes

\* The notifications of a subscription to a scope that exists: first one
\* SCOPE_PUBLISHED to the subscriber for each direct subscope, then one
\* rendezvous for each item directly under the scope, with the publishers
\* of the item and subscribers that include the new one.
SubscopesThenItems(q) ==
    LET out == Reply(Graph, q).g.out
        s == scopeIndex[q.prefixID \o q.ID]
        cs == scopes[s].childrenScopes
        is == scopes[s].informationitems
        n == Cardinality(cs)
    IN /\ Len(out) = n + Cardinality(is)
       /\ \A i \in 1 .. n :
              /\ out[i].type = "SCOPE_PUBLISHED"
              /\ out[i].subs = {q.h}
       /\ \A c \in cs : \E i \in 1 .. n : out[i].ids = IDsOf(scopes[c])
       /\ \A i \in n + 1 .. Len(out) :
              /\ out[i].type \in ItemNotes
              /\ q.h \in out[i].subs
       /\ \A p \in is : \E i \in n + 1 .. Len(out) :
              /\ out[i].ids = IDsOf(items[p])
              /\ out[i].pubs = PublishersOf(items[p])

\* The notifications of a subscription that creates the scope: the
\* subscribers of the father are told of the new scope, and nothing else
\* is sent; a root scope is created silently.
FatherToldOfCreation(q) ==
    LET out == Reply(Graph, q).g.out
        X == q.prefixID \o q.ID
        to == IF Len(q.prefixID) = 0 THEN {} ELSE SubscribedTo(scopeIndex[q.prefixID])
    IN IF to = {} THEN out = <<>>
       ELSE /\ Len(out) = 1
            /\ out[1].type = "SCOPE_PUBLISHED"
            /\ out[1].ids = {X}
            /\ out[1].subs = to

\* C24: a successful subscribe_scope, root or inner, links the subscriber,
\* then sends it one SCOPE_PUBLISHED for every direct subscope of the scope
\* and runs rendezvous for every item directly under the scope with
\* subscribers that include the new one; when the inner form creates the
\* scope, the subscribers of the father are told of the new scope first.
C24_SubscriberLearnsTheScope ==
    \A q \in ScopeSubscriptions :
        /\ SubscriberLinked(q)
        /\ IF q.prefixID \o q.ID \in DOMAIN scopeIndex
           THEN SubscopesThenItems(q)
           ELSE FatherToldOfCreation(q)

\* C24 case: a host subscribes to a scope that holds a subscope and an
\* item with a publisher, and is sent both; and in the same graph a
\* subscription creates an inner scope whose father has a subscriber.
C24_Witness ==
    /\ \E q \in ScopeSubscriptions :
           LET X == q.prefixID \o q.ID
               out == Reply(Graph, q).g.out
           IN /\ X \in DOMAIN scopeIndex
              /\ q.h \notin SubscribersOf(scopes[scopeIndex[X]])
              /\ Len(out) = 2
              /\ out[1].type = "SCOPE_PUBLISHED"
              /\ out[2].type \in ItemNotes /\ out[2].pubs # {}
    /\ \E q \in ScopeSubscriptions :
           /\ q.prefixID \o q.ID \notin DOMAIN scopeIndex
           /\ Len(Reply(Graph, q).g.out) = 1

\* ------------------------------------------ the republication of an entity
\* The republications of a scope or an item: the identifier carries the
\* identifier of the source followed by the last fragment of the target.
Republishes ==
    {q \in Probes \cup Requests(Fork, "PUBLISH_SCOPE") \cup Requests(Fork, "PUBLISH_INFO") :
        /\ q.type \in {"PUBLISH_SCOPE", "PUBLISH_INFO"}
        /\ Len(q.ID) >= 2 /\ Len(q.prefixID) >= 1}

SourceOf(q) == Prefix(q.ID)
TargetOf(q) == q.prefixID \o Suffix(q.ID)

\* The index of the kind of entity the request republishes, and the other.
OwnIndex(q) == IF q.type = "PUBLISH_SCOPE" THEN scopeIndex ELSE pubIndex
OtherIndex(q) == IF q.type = "PUBLISH_SCOPE" THEN pubIndex ELSE scopeIndex

\* The target identifier is an identifier of the source entity already.
AlreadyRepublished(q) ==
    /\ SourceOf(q) \in DOMAIN OwnIndex(q)
    /\ q.prefixID \in DOMAIN scopeIndex
    /\ TargetOf(q) \in DOMAIN OwnIndex(q)
    /\ OwnIndex(q)[TargetOf(q)] = OwnIndex(q)[SourceOf(q)]

\* The source or the father is missing, or the target identifier is the
\* identifier of another entity.
CannotRepublish(q) ==
    \/ SourceOf(q) \notin DOMAIN OwnIndex(q)
    \/ q.prefixID \notin DOMAIN scopeIndex
    \/ TargetOf(q) \in DOMAIN OtherIndex(q)
    \/ /\ SourceOf(q) \in DOMAIN OwnIndex(q)
       /\ TargetOf(q) \in DOMAIN OwnIndex(q)
       /\ OwnIndex(q)[TargetOf(q)] # OwnIndex(q)[SourceOf(q)]

\* The graph with the record of the host of the request.
WithHostOf(q) == [Graph EXCEPT !.hosts[q.h].known = TRUE]

\* The strategy of the entity the target identifier refers to.
TargetStrategy(q) ==
    IF q.type = "PUBLISH_SCOPE" THEN scopes[scopeIndex[TargetOf(q)]].strategy
    ELSE items[pubIndex[TargetOf(q)]].strategy

\* The request only adds the host to the publishers of the target
\* identifier: the indexes, the identifiers and the fathers and children of
\* every entity are as before, and no SCOPE_PUBLISHED is sent.
OnlyAddsPublisher(q) ==
    LET g == Reply(Graph, q).g
        X == TargetOf(q)
    IN /\ g.scopeIndex = scopeIndex /\ g.pubIndex = pubIndex
       /\ \A i \in 1 .. Len(g.out) : g.out[i].type # "SCOPE_PUBLISHED"
       /\ IF q.type = "PUBLISH_SCOPE"
          THEN /\ g.scopes = [scopes EXCEPT ![scopeIndex[X]].ids[X].pubs = @ \cup {q.h}]
               /\ g.items = items
               /\ g.hosts = [WithHostOf(q).hosts EXCEPT
                                ![q.h].publishedScopes = @ \cup {X}]
               /\ g.out = <<>>
          ELSE /\ g.items = [items EXCEPT ![pubIndex[X]].ids[X].pubs = @ \cup {q.h}]
               /\ g.scopes = scopes
               /\ g.hosts = [WithHostOf(q).hosts EXCEPT
                                ![q.h].publishedItems = @ \cup {X}]

IsError(ret) == ret # "SUCCESS"

\* C25: a republication whose target identifier refers to the source
\* already succeeds when the strategy is that of the entity and then only
\* adds the host as publisher (no identifier, no father or child, no
\* SCOPE_PUBLISHED); a republication whose source or father is missing, or
\* whose target identifier belongs to another entity, returns an error and
\* changes nothing but the record of the requesting host, which is created.
C25_RepublishedAgainOnlyLinks ==
    \A q \in Republishes :
        LET r == Reply(Graph, q)
        IN /\ AlreadyRepublished(q) =>
                 IF q.strategy = TargetStrategy(q)
                 THEN r.ret = "SUCCESS" /\ OnlyAddsPublisher(q)
                 ELSE r.ret = "STRATEGY_MISMATCH" /\ r.g = WithHostOf(q)
           /\ CannotRepublish(q) => IsError(r.ret) /\ r.g = WithHostOf(q)

\* C25 as claimed: the republication that fails changes nothing.
C25_FailedRepublishChangesNothing ==
    \A q \in Republishes :
        CannotRepublish(q) =>
            IsError(Reply(Graph, q).ret) /\ Reply(Graph, q).g = Graph

\* C25 case: a scope under two fathers is republished again under the
\* second by a host that does not publish that branch, and a host the graph
\* does not know republishes a scope under the identifier of another scope.
C25_Witness ==
    /\ \E q \in Republishes :
           /\ q.type = "PUBLISH_SCOPE"
           /\ AlreadyRepublished(q) /\ TargetOf(q) # SourceOf(q)
           /\ q.h \notin scopes[scopeIndex[TargetOf(q)]].ids[TargetOf(q)].pubs
           /\ Reply(Graph, q).ret = "SUCCESS"
    /\ \E q \in Republishes :
           /\ SourceOf(q) \in DOMAIN scopeIndex
           /\ q.prefixID \in DOMAIN scopeIndex
           /\ TargetOf(q) \in DOMAIN scopeIndex
           /\ scopeIndex[TargetOf(q)] # scopeIndex[SourceOf(q)]
           /\ ~pub_sub_Index[q.h].known
           /\ IsError(Reply(Graph, q).ret)

\* ------------------------------------------- an identifier of the other kind
\* The publications and subscriptions of an accepted shape.
Creations ==
    {q \in Probes :
        /\ q.type \in {"PUBLISH_SCOPE", "SUBSCRIBE_SCOPE", "PUBLISH_INFO", "SUBSCRIBE_INFO"}
        /\ Accepted(q)}

\* The full identifier the request is about.
FullIDOf(q) == q.prefixID \o Suffix(q.ID)

\* The request is about a scope and its identifier is that of an item, or
\* about an item and its identifier is that of a scope.
NamesItemAsScope(q) ==
    q.type \in {"PUBLISH_SCOPE", "SUBSCRIBE_SCOPE"} /\ FullIDOf(q) \in DOMAIN pubIndex
NamesScopeAsItem(q) ==
    q.type \in {"PUBLISH_INFO", "SUBSCRIBE_INFO"} /\ FullIDOf(q) \in DOMAIN scopeIndex

\* C26: a publication of or subscription to a scope whose full identifier
\* is the identifier of an item returns INFO_ITEM_EXISTS, and one of or to
\* an item whose full identifier is the identifier of a scope returns
\* SCOPE_EXISTS; no scope or item is created, no identifier is added, no
\* host is added to or removed from a set, and nothing is sent.
C26_OtherKindIsRefused ==
    \A q \in Creations :
        LET r == Reply(Graph, q)
        IN /\ NamesItemAsScope(q) => r.ret = "INFO_ITEM_EXISTS" /\ r.g = WithHostOf(q)
           /\ NamesScopeAsItem(q) => r.ret = "SCOPE_EXISTS" /\ r.g = WithHostOf(q)

\* C26 case: the identifier of an item is used for a scope, with the
\* strategy of the item and with the other, and in the same graph the
\* identifier of a scope is used for an item, by a host that publishes
\* nothing and in the republication of an item.
C26_Witness ==
    /\ \E q \in Creations :
           /\ q.type = "PUBLISH_SCOPE" /\ NamesItemAsScope(q)
           /\ q.strategy = items[pubIndex[FullIDOf(q)]].strategy
    /\ \E q \in Creations :
           /\ q.type = "SUBSCRIBE_SCOPE" /\ NamesItemAsScope(q)
           /\ q.strategy # items[pubIndex[FullIDOf(q)]].strategy
    /\ \E q \in Creations :
           /\ q.type = "SUBSCRIBE_INFO" /\ NamesScopeAsItem(q) /\ Len(q.ID) = 1
           /\ pub_sub_Index[q.h].publishedScopes = {}
    /\ \E q \in Creations :
           /\ q.type = "PUBLISH_INFO" /\ NamesScopeAsItem(q) /\ Len(q.ID) > 1
           /\ Prefix(q.ID) \in DOMAIN pubIndex

\* ------------------------------------------------- the cascade of deletions
\* The return codes of the handlers.
Statuses ==
    {"SUCCESS", "WRONG_IDS", "STRATEGY_MISMATCH", "SCOPE_DOES_NOT_EXIST",
     "INFO_ITEM_DOES_NOT_EXIST", "PARENT_DOES_NOT_EXIST", "SCOPE_EXISTS",
     "INFO_ITEM_EXISTS"}

\* The unpublish and unsubscribe requests of the fork workload.
Withdrawals ==
    UNION {Requests(Fork, t) : t \in {"UNPUBLISH_SCOPE", "UNPUBLISH_INFO",
                                      "UNSUBSCRIBE_SCOPE", "UNSUBSCRIBE_INFO"}}

\* The scopes the request deletes.
DeletedBy(q) == AliveScopes(Graph) \ AliveScopes(Reply(Graph, q).g)

\* The garbage collection of the request looks at scopes of the graph
\* only, at every scope it deletes, at no scope after it deleted it, and at
\* no more scopes than the collections it starts (one for the entity, one
\* per item under it) can reach through the fathers of the scopes deleted.
CascadeIsBounded(q) ==
    LET seen == Reply(Graph, q).g.visited
        N == Cardinality(AliveScopes(Graph))
    IN /\ \A i \in 1 .. Len(seen) : seen[i] \in AliveScopes(Graph)
       /\ \A s \in DeletedBy(q) : \E i \in 1 .. Len(seen) :
              /\ seen[i] = s
              /\ \A j \in i + 1 .. Len(seen) : seen[j] # s
       /\ Len(seen) <= N * N * (Cardinality(AliveItems(Graph)) + 1)

\* C27: the cascading deletion an unpublish or unsubscribe request starts
\* terminates in every graph the requests can build, scopes with several
\* fathers included: the recursion into the fathers looks at boundedly
\* many scopes and the handler returns a status.
C27_CascadeTerminates ==
    \A q \in Withdrawals :
        /\ Reply(Graph, q).ret \in Statuses
        /\ CascadeIsBounded(q)

\* C27 case: a request deletes a scope with two fathers and both fathers
\* with it, looking at each of the three once.
C27_Witness ==
    \E q \in Withdrawals : \E s \in DeletedBy(q) :
        /\ Cardinality(scopes[s].fatherScopes) = 2
        /\ s \notin scopes[s].fatherScopes
        /\ scopes[s].fatherScopes \subseteq DeletedBy(q)
        /\ Len(Reply(Graph, q).g.visited) = 3
        /\ Reply(Graph, q).ret = "SUCCESS"

\* ----------------------------------------------- the request of an outsider
AboutScope(q) == q.type \in {"UNPUBLISH_SCOPE", "UNSUBSCRIBE_SCOPE"}

\* The scope or item that the identifier of the request names in g.
Names(g, q) ==
    LET X == q.prefixID \o q.ID
    IN IF AboutScope(q) THEN X \in DOMAIN g.scopeIndex ELSE X \in DOMAIN g.pubIndex

NamedBy(g, q) ==
    LET X == q.prefixID \o q.ID
    IN IF AboutScope(q) THEN g.scopes[g.scopeIndex[X]] ELSE g.items[g.pubIndex[X]]

\* The unpublish (unsubscribe) requests for an existing scope or item of a
\* host that is not among its publishers (subscribers).
Outsiders ==
    {q \in Probes :
        /\ q.type \in {"UNPUBLISH_SCOPE", "UNPUBLISH_INFO",
                       "UNSUBSCRIBE_SCOPE", "UNSUBSCRIBE_INFO"}
        /\ Accepted(q)
        /\ Names(Graph, q)
        /\ q.h \notin (IF q.type \in {"UNPUBLISH_SCOPE", "UNPUBLISH_INFO"}
                       THEN PublishersOf(NamedBy(Graph, q))
                       ELSE SubscribersOf(NamedBy(Graph, q)))}

\* The entity is in the graph after the request as it was before: same
\* handle, same identifiers, same publishers and subscribers of each.
EntityUntouched(q) ==
    LET g == Reply(Graph, q).g
        X == q.prefixID \o q.ID
    IN /\ Names(g, q)
       /\ IF AboutScope(q) THEN g.scopeIndex[X] = scopeIndex[X]
          ELSE g.pubIndex[X] = pubIndex[X]
       /\ NamedBy(g, q).ids = NamedBy(Graph, q).ids

OtherHostsUntouched(q) ==
    \A h \in Hosts \ {q.h} : Reply(Graph, q).g.hosts[h] = pub_sub_Index[h]

\* C28: an unpublish (unsubscribe) request for an existing scope or item
\* of a host that is not among its publishers (subscribers) leaves the
\* sets of every other host unchanged and, when some host publishes or
\* subscribes to the entity, leaves the entity in the graph with its
\* identifiers, publishers and subscribers unchanged.
C28_OutsiderLeavesHeldEntity ==
    \A q \in Outsiders :
        /\ OtherHostsUntouched(q)
        /\ PublishersOf(NamedBy(Graph, q)) \cup SubscribersOf(NamedBy(Graph, q)) # {}
               => EntityUntouched(q)

\* C28 as claimed: the entity keeps its identifiers, publishers and
\* subscribers whoever holds it.
C28_OutsiderLeavesEntity ==
    \A q \in Outsiders : OtherHostsUntouched(q) /\ EntityUntouched(q)

\* C28 case: a host unpublishes a scope that only the other host publishes
\* and under which it publishes an item itself, and a host unsubscribes
\* from an item that only the other host subscribes to.
C28_Witness ==
    /\ \E q \in Outsiders :
           /\ q.type = "UNPUBLISH_SCOPE"
           /\ PublishersOf(NamedBy(Graph, q)) = Hosts \ {q.h}
           /\ \E p \in NamedBy(Graph, q).informationitems :
                  q.h \in PublishersOf(items[p])
           /\ Reply(Graph, q).ret = "SUCCESS"
    /\ \E q \in Outsiders :
           /\ q.type = "UNSUBSCRIBE_INFO"
           /\ SubscribersOf(NamedBy(Graph, q)) = Hosts \ {q.h}
           /\ Reply(Graph, q).ret = "SUCCESS"

====
